---- MODULE Spec2Model ----
(***************************************************************************)
(* Stateful tool-call dispatch and specialized-agent orchestration of the  *)
(* convo-ai middleware (src/src/libs/versionedFunctionMap.ts and           *)
(* src/src/services/cerebrasService.ts).                                   *)
(*                                                                         *)
(* Text that the code inspects character by character (customer names,     *)
(* phone numbers, restaurant names, message contents) is a sequence of     *)
(* one-character strings.  Identifiers that the code only compares or      *)
(* concatenates (channels, agent ids, session keys) are TLA+ strings.      *)
(* A handler's returned text is a record: its kind plus the values the     *)
(* text interpolates.                                                      *)
(***************************************************************************)
EXTENDS Integers, Sequences, FiniteSets, TLC

VARIABLES
  config,                  \* utils.ts config, fixed when the process starts
  now,                     \* Date.now(), in milliseconds
  activeSpecializedAgents, \* Map<channel, boolean>: the channels mapped to true
  activePollingSessions,   \* Map<sessionKey, session>, in insertion order
  pollingCallbacks,        \* Map<channel, callback info>
  conversationContext,     \* Map<channel, context entry>
  agentStore,              \* Map<userId, latest agent>
  restaurantIndex,         \* Map<userId, Map<id, entry>>, in insertion order
  callActionStore,         \* Map<channel, {callAction, timestamp}>
  tasks,                   \* detached createSpecializedVoiceAgent promises
  last,                    \* the last operation and the value it returned
  turn                     \* one processNonStreamingRequest invocation

stores == <<activeSpecializedAgents, activePollingSessions, pollingCallbacks,
            conversationContext, agentStore, restaurantIndex, callActionStore>>

vars == <<config, now, activeSpecializedAgents, activePollingSessions,
          pollingCallbacks, conversationContext, agentStore, restaurantIndex,
          callActionStore, tasks, last, turn>>

(***************************************************************************)
(* Bounds of the model.                                                    *)
(***************************************************************************)
MaxDispatches == 2          \* accepted dispatches (detached promises) per behaviour
MaxValidateDispatches == 1  \* the same, under SpecValidate
MaxRaceDispatches == 3      \* the same, under SpecRace
MaxPushes == 1       \* pushed status updates per behaviour

\* A key a Map does not hold.  An undefined or empty string is "", an
\* undefined or empty text is <<>>: the code tests both for truthiness only.
Absent == [absent |-> TRUE]

(***************************************************************************)
(* Character-level text.                                                   *)
(***************************************************************************)
Upper == <<"A","B","C","D","E","F","G","H","I","J","K","L","M",
           "N","O","P","Q","R","S","T","U","V","W","X","Y","Z">>
Lower == <<"a","b","c","d","e","f","g","h","i","j","k","l","m",
           "n","o","p","q","r","s","t","u","v","w","x","y","z">>
Digits == {"0","1","2","3","4","5","6","7","8","9"}

ToLowerChar(c) ==
  IF \E i \in 1..26 : Upper[i] = c
  THEN Lower[CHOOSE i \in 1..26 : Upper[i] = c]
  ELSE c

\* String.prototype.toLowerCase
ToLowerCase(s) == [i \in 1..Len(s) |-> ToLowerChar(s[i])]

\* String.prototype.includes: the empty text is included in every text
Includes(s, sub) ==
  \E i \in 0..(Len(s) - Len(sub)) : SubSeq(s, i + 1, i + Len(sub)) = sub

IsLowerAlnum(c) == c \in Digits \/ (\E i \in 1..26 : Lower[i] = c)

\* s.toLowerCase().replace(/[^a-z0-9]/g, '')
NormalizeName(s) == SelectSeq(ToLowerCase(s), IsLowerAlnum)

AllDigits(s) == \A i \in 1..Len(s) : s[i] \in Digits

\* /^\+?1?[0-9]{10,11}$/
MatchesPhonePattern(s) ==
  LET r == IF Len(s) > 0 /\ s[1] = "+" THEN Tail(s) ELSE s
  IN  \/ AllDigits(r) /\ Len(r) \in {10, 11}
      \/ Len(r) > 0 /\ r[1] = "1" /\ AllDigits(Tail(r)) /\ Len(Tail(r)) \in {10, 11}

(***************************************************************************)
(* Inputs.                                                                 *)
(***************************************************************************)
\* "a-b" extends "a" by the separator of the polling session key
Channels == {"a", "a-b"}
Users == {"u1", "u2"}
\* agent_id values of the provisioning response; "" is a body without one
AgentIds == {"c"}
\* agent_id arguments of stop_agent_polling; "" is an omitted argument
StopAgentArgs == {"", "c", "b-c"}
StopReasons == {"", "done"}

T0 == 7200000            \* the clock when the process starts

\* config.tts.vendor and the secrets each vendor needs; TRUE is a set value
FullConfig ==
  [convoAiBaseUrl |-> TRUE, specializedAgentUrl |-> TRUE,
   specializedAgentApiKey |-> TRUE, vendor |-> "elevenlabs",
   elevenlabsApiKey |-> TRUE, elevenlabsModelId |-> TRUE,
   elevenlabsVoiceId |-> TRUE, microsoftKey |-> FALSE,
   microsoftRegion |-> FALSE, microsoftVoiceName |-> FALSE]

Configs ==
  { FullConfig,
    [FullConfig EXCEPT !.convoAiBaseUrl = FALSE],
    [FullConfig EXCEPT !.specializedAgentApiKey = FALSE, !.elevenlabsVoiceId = FALSE],
    [FullConfig EXCEPT !.vendor = "microsoft"],
    [FullConfig EXCEPT !.vendor = "polly"] }

(***************************************************************************)
(* Insertion-ordered Map<string, V>: a sequence of records with a key.     *)
(***************************************************************************)
MapHas(m, k) == \E i \in 1..Len(m) : m[i].key = k
MapSet(m, k, v) ==
  IF MapHas(m, k)
  THEN [i \in 1..Len(m) |-> IF m[i].key = k THEN v ELSE m[i]]
  ELSE Append(m, v)
MapDelete(m, k) == SelectSeq(m, LAMBDA e : e.key # k)

(***************************************************************************)
(* Call action preference per channel.                                     *)
(***************************************************************************)
OneHourMs == 3600000
DefaultCallAction == "call_hermes"

\* storeCallAction's new store
storeCallActionStore(channel, callAction) ==
  [callActionStore EXCEPT ![channel] = [callAction |-> callAction, timestamp |-> now]]

\* getCallAction: the value returned
getCallActionValue(channel) ==
  LET stored == callActionStore[channel]
  IN  IF stored = Absent THEN DefaultCallAction
      ELSE IF stored.timestamp < now - OneHourMs THEN DefaultCallAction
      ELSE stored.callAction

\* a read that leaves every entry in place
getCallActionStoreKeepsStale(channel) == callActionStore

\* getCallAction: the store it leaves
getCallActionStore(channel) ==
  LET stored == callActionStore[channel]
  IN  IF stored # Absent /\ stored.timestamp < now - OneHourMs
      THEN [callActionStore EXCEPT ![channel] = Absent]
      ELSE callActionStore

(***************************************************************************)
(* Restaurant index (phone directory).                                     *)
(***************************************************************************)
\* a lookup that accepts only a stored name that contains the query
findPhoneNumberStoredContains(userId, restaurantName) ==
  LET userIndex == restaurantIndex[userId]
      q == NormalizeName(restaurantName)
      hit(i) == Includes(NormalizeName(userIndex[i].name), q)
  IN  IF \E i \in 1..Len(userIndex) : hit(i)
      THEN userIndex[CHOOSE i \in 1..Len(userIndex) :
                       hit(i) /\ \A j \in 1..(i - 1) : ~hit(j)].phone
      ELSE <<>>

\* findPhoneNumber: the first entry, in insertion order, whose normalized
\* name contains the normalized query or is contained in it
findPhoneNumber(userId, restaurantName) ==
  LET userIndex == restaurantIndex[userId]
      q == NormalizeName(restaurantName)
      hit(i) == LET n == NormalizeName(userIndex[i].name)
                IN  Includes(n, q) \/ Includes(q, n)
  IN  IF \E i \in 1..Len(userIndex) : hit(i)
      THEN userIndex[CHOOSE i \in 1..Len(userIndex) :
                       hit(i) /\ \A j \in 1..(i - 1) : ~hit(j)].phone
      ELSE <<>>

\* an index in which the latest result replaces the entry of its id
storeYelpResultOverwrite(userIndex, result) ==
  IF result.phone = <<>> THEN userIndex
  ELSE IF ~MapHas(userIndex, result.id)
  THEN Append(userIndex, [key |-> result.id, id |-> result.id, name |-> result.name,
                          phone |-> result.phone, lastSeen |-> now])
  ELSE [i \in 1..Len(userIndex) |->
          IF userIndex[i].key = result.id
          THEN [key |-> result.id, id |-> result.id, name |-> result.name,
                phone |-> result.phone, lastSeen |-> now]
          ELSE userIndex[i]]

\* storeYelpResults: one result applied to a user's index
storeYelpResult(userIndex, result) ==
  IF result.phone # <<>> /\ ~MapHas(userIndex, result.id)
  THEN Append(userIndex, [key |-> result.id, id |-> result.id, name |-> result.name,
                          phone |-> result.phone, lastSeen |-> now])
  ELSE IF result.phone # <<>> /\ MapHas(userIndex, result.id)
  THEN [i \in 1..Len(userIndex) |->
          IF userIndex[i].key = result.id
          THEN [userIndex[i] EXCEPT !.lastSeen = now]
          ELSE userIndex[i]]
  ELSE userIndex

RECURSIVE storeYelpResultsIndex(_, _)
storeYelpResultsIndex(userIndex, results) ==
  IF results = <<>> THEN userIndex
  ELSE storeYelpResultsIndex(storeYelpResult(userIndex, Head(results)), Tail(results))

(***************************************************************************)
(* Status context and polling sessions.                                    *)
(***************************************************************************)
MaxUpdates == 5

\* an entry that keeps every update it was given
injectStatusEntryUnbounded(channel, agentId, type, status, updateType) ==
  LET existing == conversationContext[channel]
      update == [timestamp |-> now, status |-> status, type |-> updateType]
  IN  IF existing # Absent
      THEN [existing EXCEPT !.latestStatus = status, !.updates = Append(@, update)]
      ELSE [agentId |-> agentId, type |-> type, latestStatus |-> status,
            updates |-> <<update>>]

\* injectStatusIntoConversation: the entry it leaves for the channel
injectStatusEntry(channel, agentId, type, status, updateType) ==
  LET existing == conversationContext[channel]
      update == [timestamp |-> now, status |-> status, type |-> updateType]
  IN  IF existing # Absent
      THEN LET pushed == Append(existing.updates, update)
           IN  [existing EXCEPT
                  !.latestStatus = status,
                  !.updates = IF Len(pushed) > MaxUpdates
                              THEN SubSeq(pushed, Len(pushed) - MaxUpdates + 1, Len(pushed))
                              ELSE pushed]
      ELSE [agentId |-> agentId, type |-> type, latestStatus |-> status,
            updates |-> <<update>>]

\* `${channel}-${agentId}`
SessionKey(channel, agentId) == channel \o "-" \o agentId

\* startAgentPolling: the session Map it leaves
startAgentPollingSessions(userId, channel, agentId, type) ==
  MapSet(activePollingSessions, SessionKey(channel, agentId),
         [key |-> SessionKey(channel, agentId), agentId |-> agentId,
          userId |-> userId, channel |-> channel, type |-> type, pollCount |-> 0,
          lastStatus |-> "STARTING", consecutiveUnchangedCount |-> 0])

\* startAgentPolling: the callback Map it leaves
startAgentPollingCallbacks(appId, userId, channel, agentId, type) ==
  [pollingCallbacks EXCEPT ![channel] =
     [appId |-> appId, userId |-> userId, channel |-> channel,
      agentId |-> agentId, type |-> type]]

\* storeAgentInfo: the agent store it leaves
storeAgentInfo(userId, agentId, type, channel) ==
  [agentStore EXCEPT ![userId] =
     [agentId |-> agentId, type |-> type, channel |-> channel, timestamp |-> now]]

(***************************************************************************)
(* stop_agent_polling.                                                     *)
(***************************************************************************)
\* the first session of the channel, in the Map's iteration order
FirstSessionOfChannel(channel) ==
  CHOOSE i \in 1..Len(activePollingSessions) :
    /\ activePollingSessions[i].channel = channel
    /\ \A j \in 1..(i - 1) : activePollingSessions[j].channel # channel

\* the agent id stopAgentPolling works with; "" when none is found
stopAgentId(channel, agentIdArg) ==
  IF agentIdArg # "" THEN agentIdArg
  ELSE IF \E i \in 1..Len(activePollingSessions) :
            activePollingSessions[i].channel = channel
  THEN activePollingSessions[FirstSessionOfChannel(channel)].agentId
  ELSE ""

\* the session key stopAgentPolling looks up
stopSessionKey(channel, agentIdArg) ==
  IF agentIdArg # "" THEN SessionKey(channel, agentIdArg)
  ELSE IF \E i \in 1..Len(activePollingSessions) :
            activePollingSessions[i].channel = channel
  THEN activePollingSessions[FirstSessionOfChannel(channel)].key
  ELSE ""

\* args.reason || 'manually stopped'
stopReason(reasonArg) == IF reasonArg # "" THEN reasonArg ELSE "manually stopped"

stopAgentPollingResult(channel, agentIdArg, reasonArg) ==
  IF stopAgentId(channel, agentIdArg) = ""
  THEN [kind |-> "no_active_agent"]
  ELSE IF ~MapHas(activePollingSessions, stopSessionKey(channel, agentIdArg))
  THEN [kind |-> "no_polling_session", agentId |-> stopAgentId(channel, agentIdArg)]
  ELSE [kind |-> "stopped", agentId |-> stopAgentId(channel, agentIdArg),
        reason |-> stopReason(reasonArg)]

stopAgentPolling(appId, userId, channel, agentIdArg, reasonArg) ==
  LET r == stopAgentPollingResult(channel, agentIdArg, reasonArg)
  IN  /\ IF r.kind = "stopped"
         THEN /\ activePollingSessions' =
                   MapDelete(activePollingSessions, stopSessionKey(channel, agentIdArg))
              /\ pollingCallbacks' = [pollingCallbacks EXCEPT ![channel] = Absent]
              /\ activeSpecializedAgents' = activeSpecializedAgents \ {channel}
         ELSE UNCHANGED <<activePollingSessions, pollingCallbacks, activeSpecializedAgents>>
      /\ last' = [op |-> "stop_agent_polling", channel |-> channel, userId |-> userId,
                   args |-> [agent_id |-> agentIdArg, reason |-> reasonArg],
                   result |-> r]
      /\ UNCHANGED <<config, now, conversationContext, agentStore, restaurantIndex,
                     callActionStore, tasks, turn>>

(***************************************************************************)
(* createSpecializedVoiceAgent: the detached promise of a dispatch.        *)
(***************************************************************************)
\* the names of the missing environment variables, in the order pushed
MissingConfig ==
  LET pick(ok, name) == IF ok THEN <<>> ELSE <<name>>
  IN  pick(config.convoAiBaseUrl, "AGORA_CONVO_AI_BASE_URL")
      \o pick(config.specializedAgentUrl, "LLM_URL")
      \o pick(config.specializedAgentApiKey, "LLM_API_KEY")
      \o (IF config.vendor = "elevenlabs"
          THEN pick(config.elevenlabsApiKey, "ELEVENLABS_API_KEY")
               \o pick(config.elevenlabsModelId, "ELEVENLABS_MODEL_ID")
               \o pick(config.elevenlabsVoiceId, "ELEVENLABS_VOICE_ID")
          ELSE IF config.vendor = "microsoft"
          THEN pick(config.microsoftKey, "MICROSOFT_TTS_KEY")
               \o pick(config.microsoftRegion, "MICROSOFT_TTS_REGION")
               \o pick(config.microsoftVoiceName, "MICROSOFT_TTS_VOICE_NAME")
          ELSE <<>>)

\* getTTSConfig throws for any other vendor
TTSVendorSupported == config.vendor \in {"elevenlabs", "microsoft"}

TokenLifetimeS == 3600

\* `specialized-${specialization}-${timestamp}-${random}`, kept as its parts
specializedChannelName(specialization, timestamp, random) ==
  <<"specialized", specialization, timestamp, random>>

\* an expiry rounded up to the next whole second
expirationTimeRoundedUp(timestamp) == ((timestamp + 999) \div 1000) + TokenLifetimeS

\* Math.floor(timestamp / 1000) + 3600
expirationTime(timestamp) == (timestamp \div 1000) + TokenLifetimeS

\* The promise up to its first await: the configuration checks, the channel
\* name and token, and the join request.  stage "provisioning" is a join
\* request in flight; "calling" a call being placed; "done" a settled promise.
createStart(userId, channel, specialization, phoneNumber, random) ==
  LET base == [userId |-> userId, channel |-> channel,
               specialization |-> specialization, phoneNumber |-> phoneNumber,
               timestamp |-> 0, random |-> "", tokenExpire |-> 0,
               tokenChannel |-> <<>>,
               agentId |-> "", callAction |-> "", callTo |-> <<>>,
               stage |-> "done", result |-> [kind |-> "pending"]]
  IN  IF MissingConfig # <<>>
      THEN [base EXCEPT !.result = [kind |-> "config_error", missing |-> MissingConfig]]
      ELSE IF ~TTSVendorSupported
      THEN [base EXCEPT !.result = [kind |-> "create_error", cause |-> "exception"]]
      ELSE [base EXCEPT !.stage = "provisioning", !.timestamp = now,
                        !.random = random,
                        !.tokenExpire = expirationTime(now),
                        !.tokenChannel = specializedChannelName(specialization, now, random)]

\* the channel name of a started promise: agentRequest.properties.channel
SpecializedChannelName(t) ==
  specializedChannelName(t.specialization, t.timestamp, t.random)

\* responses of POST join
JoinResponses ==
  {[kind |-> "ok", agent_id |-> a] : a \in AgentIds \cup {""}}
  \cup {[kind |-> k, agent_id |-> ""] : k \in {"http_error", "timeout", "network", "bad_json"}}

HermesNumber == <<"H">>
SidNumber == <<"S">>

\* a switch whose every case calls the Hermes number
CallTargetHermesOnly(callAction, phoneNumber) == HermesNumber

\* the number the switch on callAction calls
CallTarget(callAction, phoneNumber) ==
  IF callAction = "call_sid" THEN SidNumber
  ELSE IF callAction = "live" THEN phoneNumber
  ELSE HermesNumber

\* texts callPhone answers; <<>> stands for a thrown error
CallSucceeds ==
  <<"P","h","o","n","e"," ","c","a","l","l"," ","i","n","i","t","i","a","t","e","d">>
CallFails == <<"F","a","i","l","e","d"," ","t","o"," ","i","n","i","t","i","a","t","e">>
CallResults == {CallSucceeds, CallFails, <<>>}

CallThrew(callResult) == callResult = <<>>

\* a test that looks for the word 'Failed' only
CallResultFailedWordOnly(callResult) ==
  Includes(callResult, <<"F","a","i","l","e","d">>)

\* callResult.includes('Failed') || .includes('Error') || .includes('Invalid')
CallResultFailed(callResult) ==
  \/ Includes(callResult, <<"F","a","i","l","e","d">>)
  \/ Includes(callResult, <<"E","r","r","o","r">>)
  \/ Includes(callResult, <<"I","n","v","a","l","i","d">>)

\* the promise is rejected only by an error that leaves the function; its
\* whole body is inside try/catch and every catch returns a string
createRejected(t) == FALSE

\* the wrappers' .catch handler: clears the flag of a rejected promise
CatchClearsFlag(t, flags) ==
  IF createRejected(t) THEN flags \ {t.channel} ELSE flags

\* the join response arrives: lines 1640-1693
JoinResponse(i, resp) ==
  /\ i \in 1..Len(tasks)
  /\ tasks[i].stage = "provisioning"
  /\ LET t == tasks[i]
         t2 == IF resp.kind # "ok"
               THEN [t EXCEPT !.stage = "done",
                              !.result = [kind |-> "create_error", cause |-> resp.kind]]
               ELSE [t EXCEPT !.stage = "calling", !.agentId = resp.agent_id,
                              !.callAction = getCallActionValue(t.channel),
                              !.callTo = CallTarget(getCallActionValue(t.channel),
                                                    t.phoneNumber)]
     IN  /\ tasks' = [tasks EXCEPT ![i] = t2]
         /\ agentStore' = IF resp.kind = "ok" /\ resp.agent_id # ""
                          THEN storeAgentInfo(t.userId, resp.agent_id, t.specialization,
                                              SpecializedChannelName(t))
                          ELSE agentStore
         /\ callActionStore' = IF resp.kind = "ok"
                               THEN getCallActionStore(t.channel)
                               ELSE callActionStore
         /\ activeSpecializedAgents' =
              IF t2.stage = "done" THEN CatchClearsFlag(t2, activeSpecializedAgents)
              ELSE activeSpecializedAgents
         /\ last' = [op |-> "join_response", channel |-> t.channel, result |-> t2.result]
  /\ UNCHANGED <<config, now, activePollingSessions, pollingCallbacks,
                 conversationContext, restaurantIndex, turn>>

\* the telephony bridge answers or throws: lines 1695-1762
CallResponse(appId, i, callResult) ==
  /\ i \in 1..Len(tasks)
  /\ tasks[i].stage = "calling"
  /\ LET t == tasks[i]
         failed == CallThrew(callResult) \/ CallResultFailed(callResult)
         t2 == [t EXCEPT !.stage = "done",
                         !.result = IF failed
                                    THEN [kind |-> "call_failed", agentId |-> t.agentId,
                                          phoneNumber |-> t.phoneNumber]
                                    ELSE [kind |-> "call_started",
                                          phoneNumber |-> t.phoneNumber]]
         polls == ~failed /\ t.agentId # ""
     IN  /\ tasks' = [tasks EXCEPT ![i] = t2]
         /\ activePollingSessions' =
              IF polls
              THEN startAgentPollingSessions(t.userId, t.channel, t.agentId, t.specialization)
              ELSE activePollingSessions
         /\ pollingCallbacks' =
              IF polls
              THEN startAgentPollingCallbacks(appId, t.userId, t.channel, t.agentId,
                                              t.specialization)
              ELSE pollingCallbacks
         /\ activeSpecializedAgents' = CatchClearsFlag(t2, activeSpecializedAgents)
         /\ last' = [op |-> "call_response", channel |-> t.channel, userId |-> t.userId,
                     agentId |-> t.agentId, callResult |-> callResult,
                     result |-> t2.result]
  /\ UNCHANGED <<config, now, conversationContext, agentStore, restaurantIndex,
                 callActionStore, turn>>

(***************************************************************************)
(* The three dispatch wrappers.                                            *)
(***************************************************************************)
\* the names of the falsy fields, in the order the wrapper pushes them
MissingFields(args, names) ==
  LET falsy(n) == IF n = "party_size" THEN args[n] = 0 ELSE args[n] = <<>>
      RECURSIVE collect(_)
      collect(ns) == IF ns = <<>> THEN <<>>
                     ELSE (IF falsy(Head(ns)) THEN <<Head(ns)>> ELSE <<>>)
                          \o collect(Tail(ns))
  IN  collect(names)

\* a name test that looks for the placeholder words only
PlaceholderNameOnly(name) ==
  \/ Includes(ToLowerCase(name), <<"c","u","s","t","o","m","e","r">>)
  \/ Includes(ToLowerCase(name), <<"u","s","e","r">>)

\* the "critical data integrity" test of the customer name
InvalidCustomerName(name) ==
  \/ Includes(ToLowerCase(name), <<"c","u","s","t","o","m","e","r">>)
  \/ Includes(ToLowerCase(name), <<"u","s","e","r">>)
  \/ Len(name) < 2

\* a wrapper that never finds the flag set
GuardNeverHeld(channel) == FALSE

\* activeSpecializedAgents.get(channel)
GuardHeld(channel) == channel \in activeSpecializedAgents

InquiryFields == <<"phone_number", "restaurant_name", "question">>
OrderFields == <<"phone_number", "restaurant_name", "customer_name", "food_items",
                 "delivery_type", "delivery_address">>
ReservationFields == <<"phone_number", "restaurant_name", "customer_name",
                       "party_size", "time_preferences">>

\* what callAndAskQuestionAgent returns
callAndAskQuestionAgentResult(userId, channel, args) ==
  IF MissingFields(args, InquiryFields) # <<>>
  THEN [kind |-> "missing_fields", missing |-> MissingFields(args, InquiryFields)]
  ELSE IF GuardHeld(channel)
  THEN [kind |-> "already_active"]
  ELSE [kind |-> "dispatched", specialization |-> "restaurant-inquiry",
        restaurant |-> args.restaurant_name, phoneNumber |-> args.phone_number]

\* the phone number placePhoneOrderAgent goes on with; <<>> when none is found
OrderPhoneNumber(userId, args) ==
  IF args.phone_number = <<"a","u","t","o">> \/ ~MatchesPhonePattern(args.phone_number)
  THEN findPhoneNumber(userId, args.restaurant_name)
  ELSE args.phone_number

\* what placePhoneOrderAgent returns
placePhoneOrderAgentResult(userId, channel, args) ==
  IF MissingFields(args, OrderFields) # <<>>
  THEN [kind |-> "missing_fields", missing |-> MissingFields(args, OrderFields)]
  ELSE IF InvalidCustomerName(args.customer_name)
  THEN [kind |-> "invalid_customer_name", name |-> args.customer_name]
  ELSE IF OrderPhoneNumber(userId, args) = <<>>
  THEN [kind |-> "phone_not_found", restaurant |-> args.restaurant_name]
  ELSE IF GuardHeld(channel)
  THEN [kind |-> "already_active"]
  ELSE [kind |-> "dispatched", specialization |-> "phone-ordering",
        restaurant |-> args.restaurant_name,
        phoneNumber |-> OrderPhoneNumber(userId, args)]

\* what makeReservationAgent returns
makeReservationAgentResult(userId, channel, args) ==
  IF MissingFields(args, ReservationFields) # <<>>
  THEN [kind |-> "missing_fields", missing |-> MissingFields(args, ReservationFields)]
  ELSE IF InvalidCustomerName(args.customer_name)
  THEN [kind |-> "invalid_customer_name", name |-> args.customer_name]
  ELSE IF ~MatchesPhonePattern(args.phone_number)
  THEN [kind |-> "invalid_phone_format", phoneNumber |-> args.phone_number]
  ELSE IF GuardHeld(channel)
  THEN [kind |-> "already_active"]
  ELSE [kind |-> "dispatched", specialization |-> "reservation-booking",
        restaurant |-> args.restaurant_name, phoneNumber |-> args.phone_number]

\* The part the wrappers share: set the flag, start the detached promise,
\* attach the .catch handler, return the acknowledgment.
DispatchAgent(op, userId, channel, args, r, random) ==
  /\ IF r.kind = "dispatched"
     THEN /\ LET started == createStart(userId, channel, r.specialization,
                                        r.phoneNumber, random)
                 \* the promise, with what the wrapper returns without awaiting it
                 t == [f \in DOMAIN started \cup {"returned"} |->
                         IF f = "returned" THEN r ELSE started[f]]
             IN  /\ tasks' = Append(tasks, t)
                 /\ activeSpecializedAgents' =
                      IF t.stage = "done"
                      THEN CatchClearsFlag(t, activeSpecializedAgents \cup {channel})
                      ELSE activeSpecializedAgents \cup {channel}
     ELSE UNCHANGED <<tasks, activeSpecializedAgents>>
  /\ last' = [op |-> op, channel |-> channel, userId |-> userId, args |-> args,
               result |-> r]
  /\ UNCHANGED <<config, now, activePollingSessions, pollingCallbacks,
                 conversationContext, agentStore, restaurantIndex, callActionStore, turn>>

callAndAskQuestionAgent(appId, userId, channel, args, random) ==
  DispatchAgent("call_and_ask_question_agent", userId, channel, args,
                callAndAskQuestionAgentResult(userId, channel, args), random)

placePhoneOrderAgent(appId, userId, channel, args, random) ==
  DispatchAgent("place_phone_order_agent", userId, channel, args,
                placePhoneOrderAgentResult(userId, channel, args), random)

makeReservationAgent(appId, userId, channel, args, random) ==
  DispatchAgent("make_reservation_agent", userId, channel, args,
                makeReservationAgentResult(userId, channel, args), random)

(***************************************************************************)
(* Operations reached from outside the dispatch path.                      *)
(***************************************************************************)
injectStatusIntoConversation(appId, userId, channel, agentId, type, status, updateType) ==
  /\ conversationContext' =
       [conversationContext EXCEPT
          ![channel] = injectStatusEntry(channel, agentId, type, status, updateType)]
  /\ last' = [op |-> "inject_status", channel |-> channel, userId |-> userId,
              args |-> [agentId |-> agentId, type |-> type, status |-> status,
                        updateType |-> updateType],
              result |-> [kind |-> "void",
                          sliced |-> /\ conversationContext[channel] # Absent
                                     /\ Len(conversationContext[channel].updates) + 1
                                          > MaxUpdates]]
  /\ UNCHANGED <<config, now, activeSpecializedAgents, activePollingSessions,
                 pollingCallbacks, agentStore, restaurantIndex, callActionStore,
                 tasks, turn>>

storeYelpResults(userId, results) ==
  /\ restaurantIndex' =
       [restaurantIndex EXCEPT ![userId] = storeYelpResultsIndex(restaurantIndex[userId], results)]
  /\ last' = [op |-> "store_yelp_results", channel |-> "", userId |-> userId,
              args |-> results, result |-> [kind |-> "void"]]
  /\ UNCHANGED <<config, now, activeSpecializedAgents, activePollingSessions,
                 pollingCallbacks, conversationContext, agentStore, callActionStore,
                 tasks, turn>>

(***************************************************************************)
(* Input values of the dispatch specification.                             *)
(***************************************************************************)
AppId == "app"
PhoneValid == <<"+","1","5","5","5","1","2","3","4","5","6","7">>
PhoneBad == <<"5","5","5","-","1","2","3","4">>
PhoneAuto == <<"a","u","t","o">>
NameTonysPizza == <<"T","o","n","y","'","s"," ","P","i","z","z","a">>
NameTonys == <<"T","o","n","y","'","s">>
NameJoes == <<"J","o","e","'","s">>

ValidInquiry ==
  [phone_number |-> PhoneValid, restaurant_name |-> NameTonys, question |-> <<"?">>]
InquiryArgs ==
  { ValidInquiry,
    [ValidInquiry EXCEPT !.phone_number = PhoneAuto],
    [ValidInquiry EXCEPT !.phone_number = <<>>, !.question = <<>>] }

ValidOrder ==
  [phone_number |-> PhoneValid, restaurant_name |-> NameTonys,
   customer_name |-> <<"J","o">>, food_items |-> <<"x">>,
   delivery_type |-> <<"t","a","k","e","o","u","t">>,
   delivery_address |-> <<"N","/","A">>]
OrderArgs ==
  { ValidOrder,
    [ValidOrder EXCEPT !.phone_number = PhoneAuto],
    [ValidOrder EXCEPT !.phone_number = PhoneBad, !.restaurant_name = NameJoes],
    [ValidOrder EXCEPT !.customer_name = <<>>],
    [ValidOrder EXCEPT !.customer_name = <<"J">>],
    [ValidOrder EXCEPT !.customer_name = <<"U","s","e","r">>],
    [ValidOrder EXCEPT !.food_items = <<>>, !.delivery_address = <<>>],
    [ValidOrder EXCEPT !.delivery_address = <<>>] }

ValidReservation ==
  [phone_number |-> PhoneValid, restaurant_name |-> NameTonys,
   customer_name |-> <<"J","o">>, party_size |-> 2, time_preferences |-> <<"7">>]
ReservationArgs ==
  { ValidReservation,
    [ValidReservation EXCEPT !.party_size = 0],
    [ValidReservation EXCEPT !.customer_name = <<"a"," ","C","u","s","t","o","m","e","r">>],
    [ValidReservation EXCEPT !.phone_number = PhoneAuto] }

YelpResultLists ==
  { << [id |-> "a", name |-> NameTonysPizza, phone |-> PhoneValid],
       [id |-> "b", name |-> NameJoes, phone |-> <<>>] >> }

DispatchUsers == {"u1"}
PushStatuses == {"s1"}
PushTypes == {"COMPLETED"}

\* the number of status updates held, over all channels
PushCount ==
  LET n(ch) == IF conversationContext[ch] = Absent THEN 0
               ELSE Len(conversationContext[ch].updates)
      RECURSIVE sum(_)
      sum(S) == IF S = {} THEN 0
                ELSE LET ch == CHOOSE x \in S : TRUE IN n(ch) + sum(S \ {ch})
  IN  sum(Channels)

\* no request being processed
IdleTurn ==
  [pc |-> "idle", model |-> "", historyLen |-> 0, fullMessages |-> <<>>,
   toolCalls |-> <<>>, i |-> 0, executedFunctions |-> {}, hasDataTools |-> FALSE,
   invoked |-> <<>>, followUps |-> 0, followUpMessages |-> <<>>, returned |-> "none"]

Init ==
  /\ config \in Configs
  /\ now = T0
  /\ activeSpecializedAgents = {}
  /\ activePollingSessions = <<>>
  /\ pollingCallbacks = [ch \in Channels |-> Absent]
  /\ conversationContext = [ch \in Channels |-> Absent]
  /\ agentStore = [u \in Users |-> Absent]
  /\ restaurantIndex = [u \in Users |-> <<>>]
  /\ callActionStore = [ch \in Channels |-> Absent]
  /\ tasks = <<>>
  /\ last = [op |-> "init", channel |-> "", result |-> [kind |-> "void"]]
  /\ turn = IdleTurn

Inquiry(argSet, maxTasks) ==
  \E u \in DispatchUsers, ch \in Channels, args \in argSet :
    /\ callAndAskQuestionAgent(AppId, u, ch, args, "r1")
    /\ Len(tasks') <= maxTasks
Order(argSet, maxTasks) ==
  \E u \in DispatchUsers, ch \in Channels, args \in argSet :
    /\ placePhoneOrderAgent(AppId, u, ch, args, "r1")
    /\ Len(tasks') <= maxTasks
Reservation(argSet, maxTasks) ==
  \E u \in DispatchUsers, ch \in Channels, args \in argSet :
    /\ makeReservationAgent(AppId, u, ch, args, "r1")
    /\ Len(tasks') <= maxTasks
JoinRespondsWith(responses) ==
  \E i \in 1..Len(tasks), resp \in responses : JoinResponse(i, resp)
CallRespondsWith(results) ==
  \E i \in 1..Len(tasks), cr \in results : CallResponse(AppId, i, cr)
JoinResponds == JoinRespondsWith(JoinResponses)
CallResponds == CallRespondsWith(CallResults)
Stop(agentArgs, reasons) ==
  \E u \in DispatchUsers, ch \in Channels, a \in agentArgs, r \in reasons :
    stopAgentPolling(AppId, u, ch, a, r)
PushStatus ==
  /\ PushCount < MaxPushes
  /\ \E u \in DispatchUsers, ch \in Channels, a \in AgentIds, s \in PushStatuses,
        ty \in PushTypes :
       injectStatusIntoConversation(AppId, u, ch, a, "phone-ordering", s, ty)
RecordResults ==
  \E u \in DispatchUsers, rs \in YelpResultLists : storeYelpResults(u, rs)

(***************************************************************************)
(* Spec: the dispatch life cycle with well-formed arguments, the detached  *)
(* continuations, stop with every agent_id argument, and status pushes.    *)
(***************************************************************************)
DispatchInquiry == Inquiry({ValidInquiry}, MaxDispatches)
DispatchOrder == Order({ValidOrder}, MaxDispatches)
DispatchReservation == Reservation({ValidReservation}, MaxDispatches)
StopPolling == Stop(StopAgentArgs, StopReasons)

Next ==
  \/ DispatchInquiry
  \/ DispatchOrder
  \/ DispatchReservation
  \/ JoinResponds
  \/ CallResponds
  \/ StopPolling
  \/ PushStatus

Spec == Init /\ [][Next]_vars

(***************************************************************************)
(* SpecValidate: dispatches with arguments of every validation class,      *)
(* over a growing restaurant index.                                        *)
(***************************************************************************)
ValidateInquiry == Inquiry(InquiryArgs, MaxValidateDispatches)
ValidateOrder == Order(OrderArgs, MaxValidateDispatches)
ValidateReservation == Reservation(ReservationArgs, MaxValidateDispatches)
StopByChannel == Stop({""}, {""})

NextValidate ==
  \/ ValidateInquiry
  \/ ValidateOrder
  \/ ValidateReservation
  \/ JoinResponds
  \/ CallResponds
  \/ StopByChannel
  \/ PushStatus
  \/ RecordResults

SpecValidate == Init /\ [][NextValidate]_vars

(***************************************************************************)
(* SpecRace: three dispatches of one specialization whose provisioning and *)
(* call succeed, and stop with every agent_id argument.                    *)
(***************************************************************************)
RaceInquiry == Inquiry({ValidInquiry}, MaxRaceDispatches)
RaceJoinResponds == JoinRespondsWith({[kind |-> "ok", agent_id |-> "c"]})
RaceCallResponds == CallRespondsWith({CallSucceeds})
RaceStop == Stop(StopAgentArgs, {""})

NextRace ==
  \/ RaceInquiry
  \/ RaceJoinResponds
  \/ RaceCallResponds
  \/ RaceStop

SpecRace == Init /\ [][NextRace]_vars

(***************************************************************************)
(* processNonStreamingRequest: one turn of the tool-call dispatcher.       *)
(***************************************************************************)
MaxToolCalls == 3    \* tool calls in one completion response
RecentWindow == 15   \* fullMessages.slice(-15)

\* what marks an assistant message as evidence of a call
AssistantCallPhrases ==
  { <<"P","h","o","n","e"," ","c","a","l","l"," ","i","n","i","t","i","a","t","e","d">>,
    <<"c","a","l","l"," ","i","n","i","t","i","a","t","e","d">>,
    <<"C","a","l","l","i","n","g">>,
    <<"I","'","l","l"," ","c","a","l","l">>,
    <<"M","a","k","i","n","g"," ","a"," ","c","a","l","l">> }
\* what marks a tool message as evidence of a call
ToolCallPhrases ==
  { <<"P","h","o","n","e"," ","c","a","l","l"," ","i","n","i","t","i","a","t","e","d"," ","s","u","c","c","e","s","s","f","u","l","l","y">>,
    <<"c","a","l","l"," ","i","n","i","t","i","a","t","e","d">>,
    <<"C","a","l","l"," ","I","D",":">> }
\* what marks a lower-cased user message as a greeting
GreetingPhrases ==
  { <<"h","e","l","l","o">>,
    <<"h","i"," ">>,
    <<"h","e","y">>,
    <<"g","o","o","d"," ","m","o","r","n","i","n","g">>,
    <<"g","o","o","d"," ","a","f","t","e","r","n","o","o","n">>,
    <<"g","o","o","d"," ","e","v","e","n","i","n","g">>,
    <<"w","h","o"," ","i","s"," ","t","h","i","s">>,
    <<"w","h","o","'","s"," ","c","a","l","l","i","n","g">> }

\* the contents of the synthetic tool message
SomeoneJoinedText ==
  <<"A"," ","c","a","l","l"," ","i","s"," ","a","l","r","e","a","d","y"," ","a","c","t",
    "i","v","e"," ","a","n","d"," ","s","o","m","e","o","n","e"," ","h","a","s"," ","j",
    "o","i","n","e","d">>
RecentCallText ==
  <<"A"," ","c","a","l","l"," ","w","a","s"," ","a","l","r","e","a","d","y"," ","i","n",
    "i","t","i","a","t","e","d"," ","r","e","c","e","n","t","l","y">>
\* texts the handlers return
PhotoSentText ==
  <<"P","h","o","t","o"," ","s","e","n","t"," ","s","u","c","c","e","s","s","f","u","l",
    "l","y">>
FoundRestaurantsText ==
  <<"F","o","u","n","d"," ","3"," ","h","i","g","h","l","y","-","r","a","t","e","d"," ",
    "r","e","s","t","a","u","r","a","n","t","s">>
ObjectObjectText == <<"[","o","b","j","e","c","t"," ","O","b","j","e","c","t","]">>

\* the keys of getVersionedFunctionMap('v1')
OwnFunctionNames ==
  {"send_photo", "order_sandwich", "call_phone", "call_hermes_phone", "call_sid_phone",
   "search_restaurants_by_category", "search_restaurants_by_city",
   "get_top_rated_restaurants", "get_restaurant_details",
   "call_and_ask_question_agent", "place_phone_order_agent", "make_reservation_agent",
   "get_specialized_agent_status", "get_latest_agent_status", "get_latest_agent_updates",
   "get_polling_status", "stop_agent_polling", "get_indexed_restaurants"}

\* properties every object literal inherits: toString is a function,
\* __proto__ is the prototype object
InheritedNames == {"toString", "__proto__"}

\* functionCall.name in versionedFunctions
InVersionedFunctions(name) == name \in OwnFunctionNames \cup InheritedNames

\* versionedFunctions[name] can be called
Callable(name) == name # "__proto__"

\* a dispatcher that looks for call evidence for no name
NoCallTools == {}

CallTools == {"call_hermes_phone", "call_phone", "call_sid_phone"}

\* extendedToolResponseTypes[name] || toolResponseTypes[name]
ResponseType(name) ==
  IF name \in {"order_sandwich", "send_photo", "call_phone", "call_hermes_phone",
               "call_sid_phone", "call_and_ask_question_agent",
               "place_phone_order_agent", "make_reservation_agent", "stop_agent_polling"}
  THEN "affirmation"
  ELSE IF name \in {"search_restaurants_by_category", "search_restaurants_by_city",
                    "get_top_rated_restaurants", "get_restaurant_details",
                    "get_specialized_agent_status", "get_latest_agent_status",
                    "get_latest_agent_updates", "get_polling_status",
                    "get_indexed_restaurants"}
  THEN "data"
  ELSE "undefined"

JSONParseNeverThrows(arguments) == FALSE

\* JSON.parse of the arguments text throws
JSONParseThrows(arguments) == arguments # "{}"

Message(role, content, toolCallId) ==
  [role |-> role, content |-> content, tool_call_id |-> toolCallId]

\* fullMessages.slice(-15)
RecentMessages(messages) ==
  IF Len(messages) <= RecentWindow THEN messages
  ELSE SubSeq(messages, Len(messages) - RecentWindow + 1, Len(messages))

hasRecentCall(recentMessages) ==
  \E k \in 1..Len(recentMessages) :
    LET msg == recentMessages[k]
    IN  \/ /\ msg.role = "assistant"
           /\ \E ph \in AssistantCallPhrases : Includes(msg.content, ph)
        \/ /\ msg.role = "tool"
           /\ \E ph \in ToolCallPhrases : Includes(msg.content, ph)

someoneJoined(recentMessages) ==
  \E k \in 1..Len(recentMessages) :
    LET msg == recentMessages[k]
    IN  /\ msg.role = "user"
        /\ \E ph \in GreetingPhrases : Includes(ToLowerCase(msg.content), ph)

\* what the handler of a name can answer: a text, or a thrown error
HandlerOutcomes(name) ==
  IF name \in CallTools
  THEN {[kind |-> "return", text |-> CallSucceeds], [kind |-> "return", text |-> CallFails],
        [kind |-> "throw", text |-> <<>>]}
  ELSE IF name = "send_photo"
  THEN {[kind |-> "return", text |-> PhotoSentText], [kind |-> "throw", text |-> <<>>]}
  ELSE IF name = "toString"
  THEN {[kind |-> "return", text |-> ObjectObjectText]}
  ELSE {[kind |-> "return", text |-> FoundRestaurantsText]}

\* a dispatcher that keeps no record of the executed names
NeverExecuted(name) == FALSE

\* executedFunctions.has(functionCall.name)
AlreadyExecuted(name) == name \in turn.executedFunctions

\* a dispatcher that never asks again
NoFollowUp == FALSE

\* if (hasDataTools)
NeedsFollowUp == turn.hasDataTools

\* a follow-up request that sends the conversation as it is
KeepAllMessages(model, messages) == messages

\* the messages of the follow-up request
FollowUpMessages(model, messages) ==
  IF model # "qwen-3-32b"
  THEN SelectSeq(messages, LAMBDA msg : msg.role \in {"system", "user", "tool"})
  ELSE messages

\* every action records what ran last
\* a conversation that puts each new message in front
Unshift(messages, msg) == <<msg>> \o messages

\* fullMessages.push(message)
Push(messages, msg) == Append(messages, msg)

TurnStep == [op |-> "process_request", channel |-> "", result |-> [kind |-> "void"]]

\* lines 210-227: the first completion request and what it answers
StartTurn(model, history, content, toolCalls, createOk) ==
  /\ turn.pc = "idle"
  /\ turn' =
       IF ~createOk
       THEN [IdleTurn EXCEPT !.pc = "threw", !.model = model,
                             !.historyLen = Len(history), !.fullMessages = history]
       ELSE IF toolCalls = <<>>
       THEN [IdleTurn EXCEPT !.pc = "returned", !.model = model,
                             !.historyLen = Len(history), !.fullMessages = history,
                             !.returned = "original"]
       ELSE [IdleTurn EXCEPT !.pc = "loop", !.model = model,
                             !.historyLen = Len(history),
                             !.fullMessages = Push(history, Message("assistant", content, "")),
                             !.toolCalls = toolCalls, !.i = 1]
  /\ last' = TurnStep
  /\ UNCHANGED <<config, now, stores, tasks>>

\* lines 239-325: one iteration of the loop, up to the await of the handler
ProcessToolCall ==
  /\ turn.pc = "loop"
  /\ turn.i <= Len(turn.toolCalls)
  /\ LET toolCall == turn.toolCalls[turn.i]
         name == toolCall.name
         recentMessages == RecentMessages(turn.fullMessages)
     IN  turn' =
           IF AlreadyExecuted(name)
           THEN [turn EXCEPT !.i = @ + 1]
           ELSE IF ~InVersionedFunctions(name)
           THEN [turn EXCEPT !.i = @ + 1]
           ELSE IF name \in CallTools
                   /\ (hasRecentCall(recentMessages) \/ someoneJoined(recentMessages))
           THEN [turn EXCEPT
                   !.fullMessages =
                       Push(@, Message("tool",
                                         IF someoneJoined(recentMessages)
                                         THEN SomeoneJoinedText ELSE RecentCallText,
                                         toolCall.id)),
                   !.hasDataTools = TRUE,
                   !.i = @ + 1]
           ELSE IF JSONParseThrows(toolCall.arguments) \/ ~Callable(name)
           THEN [turn EXCEPT !.executedFunctions = @ \cup {name}, !.pc = "threw"]
           ELSE [turn EXCEPT !.executedFunctions = @ \cup {name},
                             !.invoked = Append(@, name), !.pc = "handler"]
  /\ last' = TurnStep
  /\ UNCHANGED <<config, now, stores, tasks>>

\* lines 325-350: the handler's promise settles
HandlerSettles(outcome) ==
  /\ turn.pc = "handler"
  /\ LET toolCall == turn.toolCalls[turn.i]
     IN  /\ outcome \in HandlerOutcomes(toolCall.name)
         /\ turn' =
              IF outcome.kind = "throw"
              THEN [turn EXCEPT !.pc = "threw"]
              ELSE IF ResponseType(toolCall.name) \in {"affirmation", "data"}
              THEN [turn EXCEPT
                      !.fullMessages = Push(@, Message("tool", outcome.text, toolCall.id)),
                      !.hasDataTools = TRUE, !.i = @ + 1, !.pc = "loop"]
              ELSE [turn EXCEPT !.i = @ + 1, !.pc = "loop"]
  /\ last' = TurnStep
  /\ UNCHANGED <<config, now, stores, tasks>>

\* lines 359-390: after the loop
FinishLoop ==
  /\ turn.pc = "loop"
  /\ turn.i > Len(turn.toolCalls)
  /\ turn' =
       IF NeedsFollowUp
       THEN [turn EXCEPT !.followUps = @ + 1,
                         !.followUpMessages = FollowUpMessages(turn.model, turn.fullMessages),
                         !.pc = "followup"]
       ELSE [turn EXCEPT !.returned = "original", !.pc = "returned"]
  /\ last' = TurnStep
  /\ UNCHANGED <<config, now, stores, tasks>>

\* lines 374-386 and 394-397: the follow-up request answers or fails
FollowUpResponse(createOk) ==
  /\ turn.pc = "followup"
  /\ turn' = IF createOk
             THEN [turn EXCEPT !.returned = "followup", !.pc = "returned"]
             ELSE [turn EXCEPT !.pc = "threw"]
  /\ last' = TurnStep
  /\ UNCHANGED <<config, now, stores, tasks>>

(***************************************************************************)
(* SpecTurn: one request whose completion response carries up to           *)
(* MaxToolCalls tool calls, over conversations with and without evidence   *)
(* of a call.                                                              *)
(***************************************************************************)
TurnModels == {"qwen-3-32b", "llama-3.3-70b"}
CallingText == <<"C","a","l","l","i","n","g"," ","n","o","w">>
OrderText == <<"o","r","d","e","r">>
HelloText == <<"H","e","l","l","o">>
SystemMessage == Message("system", <<"s">>, "")
QuietHistory == <<SystemMessage, Message("user", OrderText, "")>>
GreetingHistory == <<SystemMessage, Message("user", HelloText, "")>>
\* a call announced more than RecentWindow messages ago
LongHistory ==
  <<SystemMessage, Message("assistant", CallingText, "")>>
  \o [k \in 1..RecentWindow |-> Message("user", OrderText, "")]
Histories == {QuietHistory, GreetingHistory, LongHistory}
ResponseContents == {<<>>, CallingText}
ToolCallIds == <<"t1", "t2", "t3", "t4", "t5", "t6">>
ToolCallRequests ==
  {[name |-> n, arguments |-> "{}"] :
     n \in {"call_phone", "call_hermes_phone", "call_sid_phone", "send_photo",
            "get_top_rated_restaurants", "search_yelp_restaurants", "toString",
            "__proto__"}}
  \cup {[name |-> "send_photo", arguments |-> "{"]}
ToolCallLists ==
  UNION {{[k \in 1..n |-> [id |-> ToolCallIds[k], name |-> f[k].name,
                           arguments |-> f[k].arguments]] :
            f \in [1..n -> ToolCallRequests]} : n \in 0..MaxToolCalls}

Request ==
  /\ turn.pc = "idle"
  /\ \E model \in TurnModels, history \in Histories, content \in ResponseContents,
        toolCalls \in ToolCallLists, createOk \in BOOLEAN :
       StartTurn(model, history, content, toolCalls, createOk)
HandlerAnswers ==
  /\ turn.pc = "handler"
  /\ \E outcome \in HandlerOutcomes(turn.toolCalls[turn.i].name) : HandlerSettles(outcome)
FollowUpAnswers == \E createOk \in BOOLEAN : FollowUpResponse(createOk)

InitTurn == Init /\ config = FullConfig

NextTurn ==
  \/ Request
  \/ ProcessToolCall
  \/ HandlerAnswers
  \/ FinishLoop
  \/ FollowUpAnswers

SpecTurn == InitTurn /\ [][NextTurn]_vars

(***************************************************************************)
(* Properties of the dispatch life cycle.                                  *)
(***************************************************************************)
DispatchOps ==
  {"call_and_ask_question_agent", "place_phone_order_agent", "make_reservation_agent"}
ValidationKinds ==
  {"missing_fields", "invalid_customer_name", "phone_not_found", "invalid_phone_format"}
InFlight(ch) ==
  {i \in 1..Len(tasks) : tasks[i].channel = ch /\ tasks[i].stage \in {"provisioning", "calling"}}

\* What a dispatch creates: a detached promise (the provisioning request and
\* the call it goes on to place), the stored agent, a polling session.
Untouched == UNCHANGED <<tasks, agentStore, activePollingSessions, pollingCallbacks,
                         activeSpecializedAgents, conversationContext>>

C1_ReturnsAlreadyActive ==
  \A u \in DispatchUsers, ch \in Channels :
    ch \in activeSpecializedAgents =>
      /\ callAndAskQuestionAgentResult(u, ch, ValidInquiry).kind = "already_active"
      /\ placePhoneOrderAgentResult(u, ch, ValidOrder).kind = "already_active"
      /\ makeReservationAgentResult(u, ch, ValidReservation).kind = "already_active"

C2_OneInFlightPerChannel == \A ch \in Channels : Cardinality(InFlight(ch)) <= 1

\* C3: whenever the flag of a channel is set, stop for that channel without
\* agent_id clears it.
C3_StopReleasesGuard ==
  [][\A u \in DispatchUsers, ch \in Channels, r \in StopReasons :
       (ch \in activeSpecializedAgents /\ stopAgentPolling(AppId, u, ch, "", r))
         => ch \notin activeSpecializedAgents']_vars

\* C4: a failed join request (non-2xx, timeout, network error, unparsable
\* body) clears the flag of the dispatch's channel.
C4_ProvisionFailureReleasesGuard ==
  [][\A i \in 1..Len(tasks), resp \in JoinResponses :
       (resp.kind # "ok" /\ JoinResponse(i, resp))
         => tasks[i].channel \notin activeSpecializedAgents']_vars

\* C5: a failed call placement (a result text with Failed, Error or Invalid,
\* or a thrown error) clears the flag of the dispatch's channel.
C5_CallFailureReleasesGuard ==
  [][\A i \in 1..Len(tasks), cr \in CallResults :
       ((CallThrew(cr) \/ CallResultFailed(cr)) /\ CallResponse(AppId, i, cr))
         => tasks[i].channel \notin activeSpecializedAgents']_vars

\* C6: with a required configuration item missing, a dispatch returns the
\* error naming exactly the missing items and leaves the flag clear.
C6_MissingConfigNoSideEffect ==
  (MissingConfig # <<>> /\ last.op \in DispatchOps)
    => /\ last.result.kind = "config_error"
       /\ last.result.missing = MissingConfig
       /\ last.channel \notin activeSpecializedAgents
       /\ tasks = <<>>

C7_Empty(args, n) == IF n = "party_size" THEN args[n] = 0 ELSE args[n] = <<>>
C7_MissingField(args, fields) == \E k \in 1..Len(fields) : C7_Empty(args, fields[k])
C7_BadName(args) ==
  \/ Len(args.customer_name) < 2
  \/ Includes(ToLowerCase(args.customer_name), <<"c","u","s","t","o","m","e","r">>)
  \/ Includes(ToLowerCase(args.customer_name), <<"u","s","e","r">>)
C7_NamesProblem(args, r) ==
  /\ r.kind = "missing_fields" =>
       /\ r.missing # <<>>
       /\ \A k \in 1..Len(r.missing) : C7_Empty(args, r.missing[k])
  /\ r.kind = "invalid_customer_name" => r.name = args.customer_name /\ C7_BadName(args)
  /\ r.kind = "phone_not_found" => r.restaurant = args.restaurant_name
  /\ r.kind = "invalid_phone_format" => r.phoneNumber = args.phone_number
C7_Invalid(op, userId, args) ==
  IF op = "call_and_ask_question_agent"
  THEN C7_MissingField(args, InquiryFields)
  ELSE IF op = "place_phone_order_agent"
  THEN \/ C7_MissingField(args, OrderFields)
       \/ C7_BadName(args)
       \/ /\ ~MatchesPhonePattern(args.phone_number)
          /\ findPhoneNumber(userId, args.restaurant_name) = <<>>
  ELSE \/ C7_MissingField(args, ReservationFields)
       \/ C7_BadName(args)
       \/ ~MatchesPhonePattern(args.phone_number)

\* C7: a dispatch with a missing required field, with a customer name shorter
\* than 2 characters or holding a placeholder word, or with a phone number
\* that neither has the accepted format nor resolves in the directory, is
\* rejected; every rejected dispatch returns a text naming the problem
\* (the empty fields, the name, the restaurant or the number) and leaves the
\* flags, the stored agents, the polling sessions, the callbacks, the status
\* context and the detached promises (so the remote requests) as they were.
C7_ValidationRejectionNoEffect ==
  [][last'.op \in DispatchOps =>
       /\ C7_Invalid(last'.op, last'.userId, last'.args)
            => last'.result.kind \in ValidationKinds
       /\ last'.result.kind \in ValidationKinds
            => Untouched /\ C7_NamesProblem(last'.args, last'.result)]_vars

C7_Witness ==
  /\ last.op = "place_phone_order_agent"
  /\ last.result.kind = "phone_not_found"
  /\ restaurantIndex["u1"] # <<>>
  /\ last.channel \in activeSpecializedAgents
  /\ activePollingSessions # <<>>

\* C8: a stop that finds a polling session deletes that session and the
\* status context entry of the channel, clears the channel's flag, and
\* returns the confirmation with the reason given (or the default one).
C8_StopDeletesSessionContextGuard ==
  [][(last'.op = "stop_agent_polling" /\ last'.result.kind = "stopped") =>
       /\ ~MapHas(activePollingSessions',
                  stopSessionKey(last'.channel, last'.args.agent_id))
       /\ conversationContext'[last'.channel] = Absent
       /\ last'.channel \notin activeSpecializedAgents'
       /\ last'.result.reason =
            (IF last'.args.reason # "" THEN last'.args.reason ELSE "manually stopped")]_vars

(***************************************************************************)
(* Properties of a turn.                                                   *)
(***************************************************************************)
\* the tool messages the turn has appended to the conversation
AppendedToolResults ==
  {k \in (turn.historyLen + 1)..Len(turn.fullMessages) : turn.fullMessages[k].role = "tool"}
TurnOver == turn.pc \in {"returned", "threw"}

C9_InvokedBefore(name) == \E k \in 1..Len(turn.invoked) : turn.invoked[k] = name

\* C9: within one turn no name has its handler invoked twice, and a request
\* whose name had its handler invoked earlier in the turn is passed over:
\* no handler is invoked and no message is appended.
C9_HandlerAtMostOncePerName ==
  /\ [](\A a, b \in 1..Len(turn.invoked) : turn.invoked[a] = turn.invoked[b] => a = b)
  /\ [][(/\ turn.pc = "loop"
         /\ turn.i <= Len(turn.toolCalls)
         /\ C9_InvokedBefore(turn.toolCalls[turn.i].name))
          => /\ turn'.invoked = turn.invoked
             /\ turn'.fullMessages = turn.fullMessages
             /\ turn'.pc = "loop"]_vars

C9_Witness ==
  /\ turn.pc = "returned"
  /\ Len(turn.toolCalls) = 3
  /\ turn.toolCalls[1].name = "send_photo"
  /\ turn.toolCalls[2].name = "get_top_rated_restaurants"
  /\ turn.toolCalls[3].name = "send_photo"
  /\ turn.invoked = <<"send_photo", "get_top_rated_restaurants">>
  /\ Cardinality(AppendedToolResults) = 2

FollowUpIssued == turn.followUps = 1
C11_NoAssistant(messages) ==
  \A k \in 1..Len(messages) : messages[k].role \in {"system", "user", "tool"}
C11_NonAssistantCount(messages) ==
  Cardinality({k \in 1..Len(messages) : messages[k].role # "assistant"})

\* C11 as stated: whatever the model, the follow-up request carries system,
\* user and tool messages only.
C11_FollowUpHasNoAssistantMessage ==
  FollowUpIssued => C11_NoAssistant(turn.followUpMessages)

\* C11, amended: for every model but qwen-3-32b the follow-up request carries
\* the system, user and tool messages of the conversation, all of them and
\* nothing else; for qwen-3-32b it carries the whole conversation, the
\* assistant messages and the turn's tool-call message included.
C11_FollowUpStripsUnlessQwen ==
  FollowUpIssued =>
    IF turn.model # "qwen-3-32b"
    THEN /\ C11_NoAssistant(turn.followUpMessages)
         /\ Len(turn.followUpMessages) = C11_NonAssistantCount(turn.fullMessages)
    ELSE turn.followUpMessages = turn.fullMessages

C11_Witness ==
  /\ FollowUpIssued
  /\ turn.model # "qwen-3-32b"
  /\ turn.historyLen > RecentWindow
  /\ turn.fullMessages[2].role = "assistant"
  /\ Len(turn.followUpMessages) = Len(turn.fullMessages) - 2

AtToolCall == turn.pc = "loop" /\ turn.i <= Len(turn.toolCalls)
InvokedBefore(name) == \E k \in 1..Len(turn.invoked) : turn.invoked[k] = name
C12_ShowsCallOrGreeting(msg) ==
  \/ msg.role = "assistant" /\ \E ph \in AssistantCallPhrases : Includes(msg.content, ph)
  \/ msg.role = "tool" /\ \E ph \in ToolCallPhrases : Includes(msg.content, ph)
  \/ msg.role = "user"
     /\ \E ph \in GreetingPhrases : Includes(ToLowerCase(msg.content), ph)
C12_Evidence ==
  \E k \in 1..Len(turn.fullMessages) :
    k > Len(turn.fullMessages) - 15 /\ C12_ShowsCallOrGreeting(turn.fullMessages[k])
C12_CallRequest ==
  AtToolCall /\ turn.toolCalls[turn.i].name \in {"call_phone", "call_hermes_phone", "call_sid_phone"}
C12_SyntheticAppended ==
  /\ turn'.invoked = turn.invoked
  /\ Len(turn'.fullMessages) = Len(turn.fullMessages) + 1
  /\ LET msg == turn'.fullMessages[Len(turn'.fullMessages)]
     IN  /\ msg.role = "tool"
         /\ msg.content \in {SomeoneJoinedText, RecentCallText}
         /\ msg.tool_call_id = turn.toolCalls[turn.i].id
C12_HandlerInvoked ==
  /\ turn'.invoked = Append(turn.invoked, turn.toolCalls[turn.i].name)
  /\ turn'.fullMessages = turn.fullMessages

C13_UnknownNameDropped ==
  [][(AtToolCall /\ turn.toolCalls[turn.i].name \notin OwnFunctionNames) =>
       /\ turn'.fullMessages = turn.fullMessages
       /\ turn'.pc # "threw"]_vars

C14_Malformed == AtToolCall /\ turn.toolCalls[turn.i].arguments = "{"
C14_Raised ==
  /\ turn'.pc = "threw"
  /\ turn'.invoked = turn.invoked
  /\ turn'.fullMessages = turn.fullMessages
  /\ turn'.returned = "none"

C14_ReachesParse ==
  LET toolCall == turn.toolCalls[turn.i]
      recentMessages == RecentMessages(turn.fullMessages)
  IN  /\ toolCall.name \notin turn.executedFunctions
      /\ toolCall.name \in OwnFunctionNames
      /\ ~(/\ toolCall.name \in {"call_phone", "call_hermes_phone", "call_sid_phone"}
           /\ (hasRecentCall(recentMessages) \/ someoneJoined(recentMessages)))

C15_HandlerFailureNeverRaises ==
  [][turn.pc = "handler" => (turn'.pc = "loop" /\ turn'.i = turn.i + 1)]_vars

\* C16: whenever an invoked function returns, its result is appended as the
\* tool-result message of its request.
C16_EveryResultAppended ==
  [][(turn.pc = "handler" /\ turn'.pc = "loop") =>
       /\ Len(turn'.fullMessages) = Len(turn.fullMessages) + 1
       /\ turn'.fullMessages[Len(turn'.fullMessages)].role = "tool"
       /\ turn'.fullMessages[Len(turn'.fullMessages)].tool_call_id
            = turn.toolCalls[turn.i].id]_vars

\* the position of a request in the response, from its id
C17_RequestOf(id) == CHOOSE k \in 1..Len(ToolCallIds) : ToolCallIds[k] = id
C17_IsToolResult(msg) == msg.tool_call_id # ""
C17_ToolResults == SelectSeq(turn.fullMessages, C17_IsToolResult)
C17_ResultsInRequestOrder ==
  LET results == C17_ToolResults
  IN  /\ \A a, b \in 1..Len(results) :
            a < b => C17_RequestOf(results[a].tool_call_id)
                       < C17_RequestOf(results[b].tool_call_id)
      /\ \A a \in 1..Len(results) :
            /\ results[a] = turn.fullMessages[turn.historyLen + 1 + a]
            /\ turn.pc \in {"loop", "handler"}
                 => C17_RequestOf(results[a].tool_call_id) < turn.i
C17_HandlerStarts == turn'.invoked # turn.invoked
C17_EarlierResultsAppended ==
  \A k \in 1..Len(turn.invoked) :
    ResponseType(turn.invoked[k]) # "undefined" =>
      \E a \in 1..Len(C17_ToolResults) :
        LET r == C17_RequestOf(C17_ToolResults[a].tool_call_id)
        IN  r < turn.i /\ turn.toolCalls[r].name = turn.invoked[k]

\* C17: the requests of a turn are handled one at a time in the order
\* received: a handler starts only for the request at the current position
\* and while no other handler is pending, after the results of the handlers
\* invoked before it were appended; the position only moves forward by one;
\* the tool results of the turn follow the assistant message in request order.
C17_SequentialInOrder ==
  /\ []C17_ResultsInRequestOrder
  /\ [][C17_HandlerStarts =>
          /\ turn.pc = "loop" /\ turn'.pc = "handler" /\ turn'.i = turn.i
          /\ turn'.invoked = Append(turn.invoked, turn.toolCalls[turn.i].name)
          /\ C17_EarlierResultsAppended]_vars
  /\ [][(turn.pc \in {"loop", "handler"} /\ turn'.i # turn.i) =>
          (turn'.i = turn.i + 1 /\ turn'.pc = "loop")]_vars

C17_Witness ==
  /\ turn.pc = "handler"
  /\ turn.i = 3
  /\ Len(turn.invoked) = 3
  /\ Len(C17_ToolResults) = 2

(***************************************************************************)
(* The restaurant index and the call action store as operations of their   *)
(* own, with a clock.                                                      *)
(***************************************************************************)
\* Date.now() advances
Tick(d, limit) ==
  /\ now + d <= limit
  /\ now' = now + d
  /\ last' = [op |-> "tick", channel |-> "", result |-> [kind |-> "void"]]
  /\ UNCHANGED <<config, stores, tasks, turn>>

\* findPhoneNumber applied to a user's index
findPhoneNumberCall(userId, restaurantName) ==
  /\ last' = [op |-> "find_phone_number", channel |-> "", userId |-> userId,
              args |-> [restaurant_name |-> restaurantName],
              result |-> [kind |-> "phone", phone |-> findPhoneNumber(userId, restaurantName)]]
  /\ UNCHANGED <<config, now, stores, tasks, turn>>

storeCallAction(channel, callAction) ==
  /\ callActionStore' = IF channel = "" THEN callActionStore
                        ELSE storeCallActionStore(channel, callAction)
  /\ last' = [op |-> "store_call_action", channel |-> channel,
              args |-> [call_action |-> callAction], result |-> [kind |-> "void"]]
  /\ UNCHANGED <<config, now, activeSpecializedAgents, activePollingSessions,
                 pollingCallbacks, conversationContext, agentStore, restaurantIndex,
                 tasks, turn>>

getCallAction(channel) ==
  /\ callActionStore' = IF channel = "" THEN callActionStore
                        ELSE getCallActionStore(channel)
  /\ last' = [op |-> "get_call_action", channel |-> channel,
              result |-> [kind |-> "call_action",
                          stored |-> IF channel = "" THEN Absent
                                     ELSE callActionStore[channel],
                          callAction |-> IF channel = "" THEN DefaultCallAction
                                         ELSE getCallActionValue(channel)]]
  /\ UNCHANGED <<config, now, activeSpecializedAgents, activePollingSessions,
                 pollingCallbacks, conversationContext, agentStore, restaurantIndex,
                 tasks, turn>>

(***************************************************************************)
(* SpecDirectory: search results recorded for two users, with business ids *)
(* that come back under another name and phone, and name lookups.          *)
(***************************************************************************)
MaxDirectoryElapsed == 2
PhoneOther == <<"+","1","5","5","5","9","8","7","6","5","4","3">>
NameTonysPizzaLower == <<"t","o","n","y","s"," ","p","i","z","z","a">>
NameBobs == <<"B","o","b","'","s">>
NameJoesDiner == <<"J","o","e","'","s"," ","D","i","n","e","r">>
TonysEntry == [id |-> "a", name |-> NameTonysPizza, phone |-> PhoneValid]
DirectoryResultLists ==
  { << TonysEntry, [id |-> "b", name |-> NameJoes, phone |-> <<>>] >>,
    << [id |-> "a", name |-> NameJoes, phone |-> PhoneOther] >>,
    << [id |-> "b", name |-> NameJoes, phone |-> PhoneOther] >>,
    << TonysEntry, [id |-> "a", name |-> NameJoes, phone |-> PhoneOther] >> }
QueryNames ==
  {NameTonys, NameTonysPizzaLower, NameTonysPizza, NameJoes, NameJoesDiner, NameBobs}

RecordDirectoryResults ==
  \E u \in Users, rs \in DirectoryResultLists : storeYelpResults(u, rs)
ResolveName ==
  \E u \in Users, q \in QueryNames : findPhoneNumberCall(u, q)
DirectoryTick == Tick(1, T0 + MaxDirectoryElapsed)

NextDirectory ==
  \/ RecordDirectoryResults
  \/ ResolveName
  \/ DirectoryTick

SpecDirectory == InitTurn /\ [][NextDirectory]_vars

(***************************************************************************)
(* SpecCallAction: preferences stored and read per channel while the clock *)
(* passes the one-hour limit.                                              *)
(***************************************************************************)
MaxElapsed == 3600001
\* the instants at which the clock is read
ClockTimes == {T0, T0 + 1, T0 + OneHourMs, T0 + MaxElapsed}
CallActions == {"live", "call_sid"}
CallActionChannels == Channels \cup {""}

StorePreference ==
  \E ch \in CallActionChannels, a \in CallActions : storeCallAction(ch, a)
ReadPreference == \E ch \in CallActionChannels : getCallAction(ch)
ClockTick == \E t \in ClockTimes : t > now /\ Tick(t - now, T0 + MaxElapsed)

NextCallAction ==
  \/ StorePreference
  \/ ReadPreference
  \/ ClockTick

SpecCallAction == InitTurn /\ [][NextCallAction]_vars

(***************************************************************************)
(* Properties of the restaurant index.                                     *)
(***************************************************************************)
C18_EntriesKept ==
  \A u \in Users : \A i \in 1..Len(restaurantIndex[u]) :
    /\ i <= Len(restaurantIndex'[u])
    /\ restaurantIndex'[u][i].key = restaurantIndex[u][i].key
    /\ restaurantIndex'[u][i].id = restaurantIndex[u][i].id
    /\ restaurantIndex'[u][i].name = restaurantIndex[u][i].name
    /\ restaurantIndex'[u][i].phone = restaurantIndex[u][i].phone
    /\ restaurantIndex'[u][i].lastSeen >= restaurantIndex[u][i].lastSeen
C18_Known(u, id) ==
  \E i \in 1..Len(restaurantIndex[u]) : restaurantIndex[u][i].key = id
C18_RecordsKnownOnly ==
  /\ last'.op = "store_yelp_results"
  /\ \A k \in 1..Len(last'.args) : C18_Known(last'.userId, last'.args[k].id)
C18_OneEntryPerBusiness ==
  \A u \in Users : \A i, j \in 1..Len(restaurantIndex[u]) :
    restaurantIndex[u][i].key = restaurantIndex[u][j].key => i = j

\* C18: an entry of a user's index keeps its place, id, name and phone in
\* every step and is never removed; there is one entry per business id; a
\* recording that brings only business ids the user's index already holds
\* leaves the size of every index unchanged.
C18_RecordedEntriesNeverChange ==
  /\ []C18_OneEntryPerBusiness
  /\ [][C18_EntriesKept]_vars
  /\ [][C18_RecordsKnownOnly =>
          \A u \in Users : Len(restaurantIndex'[u]) = Len(restaurantIndex[u])]_vars

C18_Witness ==
  /\ last.op = "store_yelp_results"
  /\ last.userId = "u1"
  /\ last.args = <<[id |-> "a", name |-> NameJoes, phone |-> PhoneOther]>>
  /\ restaurantIndex["u1"] # <<>>
  /\ restaurantIndex["u1"][1] =
       [key |-> "a", id |-> "a", name |-> NameTonysPizza, phone |-> PhoneValid,
        lastSeen |-> T0 + 1]

C19_Normal(s) ==
  LET keep(c) == c \in Digits \/ (\E i \in 1..26 : Lower[i] = c)
      lower(c) == IF \E i \in 1..26 : Upper[i] = c
                  THEN Lower[CHOOSE i \in 1..26 : Upper[i] = c] ELSE c
  IN  SelectSeq([i \in 1..Len(s) |-> lower(s[i])], keep)
C19_Contains(s, sub) ==
  \E i \in 0..(Len(s) - Len(sub)) : \A k \in 1..Len(sub) : s[i + k] = sub[k]
C19_Matches(entry, query) ==
  \/ C19_Contains(C19_Normal(entry.name), C19_Normal(query))
  \/ C19_Contains(C19_Normal(query), C19_Normal(entry.name))
C19_HoldsTonysPizza(u) ==
  \E i \in 1..Len(restaurantIndex[u]) : restaurantIndex[u][i].name = NameTonysPizza

\* C19: a lookup returns a phone exactly when some entry of the user's index
\* matches the query (after lowercasing and removing the characters that
\* are not letters or digits, one name contains the other), and the phone
\* is that of a matching entry; for a user whose index holds "Tony's Pizza"
\* the queries "Tony's" and "tonys pizza" return the same phone.
C19_ResolveMatchesEitherWay ==
  /\ last.op = "find_phone_number" =>
       LET userIndex == restaurantIndex[last.userId]
           query == last.args.restaurant_name
           matching == {i \in 1..Len(userIndex) : C19_Matches(userIndex[i], query)}
       IN  /\ (last.result.phone # <<>>) <=> (matching # {})
           /\ last.result.phone # <<>> =>
                \E i \in matching : userIndex[i].phone = last.result.phone
  /\ \A u \in Users :
       C19_HoldsTonysPizza(u) =>
         /\ findPhoneNumber(u, NameTonys) # <<>>
         /\ findPhoneNumber(u, NameTonys) = findPhoneNumber(u, NameTonysPizzaLower)

C19_Witness ==
  /\ last.op = "find_phone_number"
  /\ last.args.restaurant_name = NameJoesDiner
  /\ last.result.phone = PhoneOther
  /\ C19_HoldsTonysPizza(last.userId)

(***************************************************************************)
(* Properties of the call action store.                                    *)
(***************************************************************************)
C20_Read == last'.op = "get_call_action"
C20_Stored == IF last'.channel = "" THEN Absent ELSE callActionStore[last'.channel]
C20_OlderThanOneHour(entry) == now - entry.timestamp > OneHourMs

\* C20: reading the preference of a channel returns 'call_hermes' when the
\* channel has no entry, leaving the store unchanged; returns 'call_hermes'
\* and removes the channel's entry, and no other, when the entry is older
\* than one hour; returns the stored action and leaves the store unchanged
\* when the entry is not older than one hour.
C20_GetCallActionDefaultAndExpiry ==
  [][C20_Read =>
       IF C20_Stored = Absent
       THEN /\ last'.result.callAction = "call_hermes"
            /\ callActionStore' = callActionStore
       ELSE IF C20_OlderThanOneHour(C20_Stored)
       THEN /\ last'.result.callAction = "call_hermes"
            /\ callActionStore'[last'.channel] = Absent
            /\ \A ch \in Channels \ {last'.channel} :
                  callActionStore'[ch] = callActionStore[ch]
       ELSE /\ last'.result.callAction = C20_Stored.callAction
            /\ callActionStore' = callActionStore]_vars

C20_Witness ==
  /\ last.op = "get_call_action"
  /\ last.result.stored # Absent
  /\ last.result.stored.callAction = "live"
  /\ now - last.result.stored.timestamp = OneHourMs + 1
  /\ last.result.callAction = "call_hermes"
  /\ callActionStore[last.channel] = Absent

(***************************************************************************)
(* Status lookups: the cached conversation context and the remote history  *)
(* of an agent.                                                            *)
(***************************************************************************)
\* getConversationContext: what the text it formats is made of; Absent for null
getConversationContext(channel) ==
  LET context == conversationContext[channel]
  IN  IF context = Absent THEN Absent
      ELSE IF context.updates = <<>> THEN Absent
      ELSE LET latestUpdate == context.updates[Len(context.updates)]
           IN  [kind |-> "context",
                heading |-> IF latestUpdate.type = "COMPLETED" THEN "AGENT TASK COMPLETED"
                            ELSE IF latestUpdate.type = "FAILED" THEN "AGENT TASK FAILED"
                            ELSE "AGENT UPDATE",
                type |-> context.type, agentId |-> context.agentId,
                latestStatus |-> context.latestStatus, fetched |-> FALSE]

\* what the history request can answer: a 2xx body with or without contents,
\* a 2xx body that is not JSON, a 404, another status, a timeout (the signal
\* of AbortSignal.timeout rejects with a TimeoutError), a network error
HistoryResponses ==
  { [kind |-> "ok", status |-> "RUNNING", contents |-> 0],
    [kind |-> "ok", status |-> "RUNNING", contents |-> 2],
    [kind |-> "ok", status |-> "IDLE", contents |-> 2],
    [kind |-> "unparsable"],
    [kind |-> "http", status |-> 404],
    [kind |-> "http", status |-> 500],
    [kind |-> "timeout"],
    [kind |-> "network"] }

\* lines 556-623: the try block, ending in a returned text or a thrown error
historyTry(agentId, resp) ==
  IF resp.kind = "http"
  THEN IF resp.status = 404
       THEN [kind |-> "agent_not_found", agentId |-> agentId, fetched |-> TRUE]
       ELSE [kind |-> "error_retrieving", status |-> resp.status, fetched |-> TRUE]
  ELSE IF resp.kind = "ok"
  THEN IF resp.contents = 0
       THEN [kind |-> "no_history", agentId |-> agentId, status |-> resp.status,
             fetched |-> TRUE]
       ELSE [kind |-> "status_update", agentId |-> agentId, status |-> resp.status,
             active |-> resp.status = "RUNNING", messages |-> resp.contents,
             fetched |-> TRUE]
  ELSE [kind |-> "throw",
        name |-> IF resp.kind = "timeout" THEN "TimeoutError"
                 ELSE IF resp.kind = "network" THEN "TypeError" ELSE "SyntaxError",
        fetched |-> TRUE]

\* a catch block that hands the error on
historyRethrow(agentId, outcome) == outcome

\* lines 625-633: the catch block
historyCatch(agentId, outcome) ==
  IF outcome.kind # "throw" THEN outcome
  ELSE IF outcome.name = "AbortError"
  THEN [kind |-> "timed_out", agentId |-> agentId, fetched |-> TRUE]
  ELSE [kind |-> "error_checking", agentId |-> agentId, message |-> outcome.name,
        fetched |-> TRUE]

\* a lookup that asks the history service whether or not it has an agent id
getSpecializedAgentStatusUnguarded(userId, args, resp) ==
  LET latestAgent == agentStore[userId]
      agentId == IF args.agent_id # "" THEN args.agent_id
                 ELSE IF latestAgent # Absent THEN latestAgent.agentId ELSE ""
  IN  IF ~config.convoAiBaseUrl
      THEN [kind |-> "not_configured", fetched |-> FALSE]
      ELSE historyCatch(agentId, historyTry(agentId, resp))

\* getSpecializedAgentStatus: what it returns when the request answers resp
getSpecializedAgentStatusResult(userId, args, resp) ==
  LET latestAgent == agentStore[userId]
      agentId == IF args.agent_id # "" THEN args.agent_id
                 ELSE IF latestAgent # Absent THEN latestAgent.agentId ELSE ""
  IN  IF args.agent_id = "" /\ latestAgent = Absent
      THEN [kind |-> "no_active_agent", fetched |-> FALSE]
      ELSE IF ~config.convoAiBaseUrl
      THEN [kind |-> "not_configured", fetched |-> FALSE]
      ELSE historyCatch(agentId, historyTry(agentId, resp))

\* a lookup that always asks the history service
getLatestAgentStatusAlwaysLive(userId, channel, resp) ==
  getSpecializedAgentStatusResult(userId, [agent_id |-> ""], resp)

\* getLatestAgentStatus: what it returns
getLatestAgentStatusResult(userId, channel, resp) ==
  LET contextInfo == getConversationContext(channel)
  IN  IF contextInfo # Absent THEN contextInfo
      ELSE getSpecializedAgentStatusResult(userId, [agent_id |-> ""], resp)

getSpecializedAgentStatus(appId, userId, channel, args, resp) ==
  /\ last' = [op |-> "get_specialized_agent_status", channel |-> channel,
              userId |-> userId, args |-> args,
              response |-> IF getSpecializedAgentStatusResult(userId, args, resp).fetched
                           THEN resp ELSE Absent,
              result |-> getSpecializedAgentStatusResult(userId, args, resp)]
  /\ UNCHANGED <<config, now, stores, tasks, turn>>

getLatestAgentStatus(appId, userId, channel, resp) ==
  /\ last' = [op |-> "get_latest_agent_status", channel |-> channel,
              userId |-> userId, args |-> [agent_id |-> ""],
              response |-> IF getLatestAgentStatusResult(userId, channel, resp).fetched
                           THEN resp ELSE Absent,
              result |-> getLatestAgentStatusResult(userId, channel, resp)]
  /\ UNCHANGED <<config, now, stores, tasks, turn>>

(***************************************************************************)
(* SpecStatus: status updates pushed for a channel past the limit of the   *)
(* context entry, dispatches on the channels, and the status lookups with  *)
(* every answer of the history request.                                    *)
(***************************************************************************)
MaxStatusDispatches == 1
StatusChannels == {"a"}
StatusUpdates ==
  { [status |-> "s1", type |-> "UPDATE"],
    [status |-> "s2", type |-> "COMPLETED"],
    [status |-> "s3", type |-> "FAILED"] }
StatusArgs == {[agent_id |-> ""], [agent_id |-> "c"]}

StatusOrder == Order({ValidOrder}, MaxStatusDispatches)
StatusPush ==
  \E u \in DispatchUsers, ch \in StatusChannels, a \in AgentIds, up \in StatusUpdates :
    injectStatusIntoConversation(AppId, u, ch, a, "phone-ordering", up.status, up.type)
StatusLatest ==
  \E u \in DispatchUsers, ch \in Channels, resp \in HistoryResponses :
    getLatestAgentStatus(AppId, u, ch, resp)
StatusSpecialized ==
  \E u \in DispatchUsers, ch \in StatusChannels, args \in StatusArgs,
     resp \in HistoryResponses :
    getSpecializedAgentStatus(AppId, u, ch, args, resp)

InitStatus == Init /\ config \in {FullConfig, [FullConfig EXCEPT !.convoAiBaseUrl = FALSE]}

NextStatus ==
  \/ StatusOrder
  \/ JoinResponds
  \/ CallResponds
  \/ StatusPush
  \/ StatusLatest
  \/ StatusSpecialized

SpecStatus == InitStatus /\ [][NextStatus]_vars

(***************************************************************************)
(* Properties of the status context and the status lookups.                *)
(***************************************************************************)
C21_Updates(context) == IF context = Absent THEN <<>> ELSE context.updates
C21_LastFive(updates) ==
  IF Len(updates) <= 5 THEN updates
  ELSE [k \in 1..5 |-> updates[Len(updates) - 5 + k]]
C21_Bounded ==
  \A ch \in Channels :
    conversationContext[ch] # Absent =>
      LET updates == conversationContext[ch].updates
      IN  /\ Len(updates) \in 1..5
          /\ conversationContext[ch].latestStatus = updates[Len(updates)].status
C21_PushKeepsMostRecent ==
  last'.op = "inject_status" =>
    LET ch == last'.channel
        arrived == C21_Updates(conversationContext[ch])
                     \o <<[timestamp |-> now, status |-> last'.args.status,
                           type |-> last'.args.updateType]>>
    IN  /\ conversationContext'[ch].updates = C21_LastFive(arrived)
        /\ \A other \in Channels \ {ch} :
              conversationContext'[other] = conversationContext[other]

\* C21: the context entry of a channel holds between one and five updates
\* and its latestStatus is the status of the last of them; a pushed update
\* leaves the last five of the held updates followed by the new one, in
\* that order, and no other step changes an entry.
C21_ContextHoldsLastFiveUpdates ==
  /\ []C21_Bounded
  /\ [][C21_PushKeepsMostRecent]_vars
  /\ [][last'.op # "inject_status" => conversationContext' = conversationContext]_vars

C21_Witness ==
  /\ last.op = "inject_status"
  /\ last.result.sliced
  /\ Len(conversationContext["a"].updates) = 5
  /\ conversationContext["a"].updates[1].status = "s2"
  /\ conversationContext["a"].updates[5].status = "s3"
  /\ conversationContext["a"].latestStatus = "s3"

C22_LiveKinds ==
  {"no_active_agent", "not_configured", "agent_not_found", "error_retrieving",
   "no_history", "status_update", "timed_out", "error_checking"}
C22_Cached(ch) ==
  conversationContext[ch] # Absent /\ Len(conversationContext[ch].updates) >= 1
C22_Heading(type) ==
  IF type = "COMPLETED" THEN "AGENT TASK COMPLETED"
  ELSE IF type = "FAILED" THEN "AGENT TASK FAILED" ELSE "AGENT UPDATE"

\* C22: getLatestAgentStatus on a channel whose context entry holds an
\* update returns the text formatted from that entry (its agent, type and
\* latest status, under the heading of its last update) without a history
\* request; on a channel with no such entry it returns what the live lookup
\* returns.
C22_LatestStatusPrefersCache ==
  last.op = "get_latest_agent_status" =>
    IF C22_Cached(last.channel)
    THEN LET context == conversationContext[last.channel]
         IN  /\ last.result.kind = "context"
             /\ ~last.result.fetched
             /\ last.result.agentId = context.agentId
             /\ last.result.type = context.type
             /\ last.result.latestStatus = context.latestStatus
             /\ last.result.heading
                  = C22_Heading(context.updates[Len(context.updates)].type)
    ELSE last.result.kind \in C22_LiveKinds

C22_Witness ==
  /\ last.op = "get_latest_agent_status"
  /\ last.result.kind = "context"
  /\ last.result.heading = "AGENT TASK COMPLETED"
  /\ ~last.result.fetched
  /\ agentStore[last.userId] # Absent
  /\ config.convoAiBaseUrl

C23_NothingKnown ==
  /\ last.op \in {"get_latest_agent_status", "get_specialized_agent_status"}
  /\ last.args.agent_id = ""
  /\ agentStore[last.userId] = Absent
  /\ last.op = "get_latest_agent_status" => ~C22_Cached(last.channel)

\* C23: a status lookup with no agent id, for a user with no stored agent
\* and (for getLatestAgentStatus) a channel with no cached context, returns
\* the 'No active agent found' message without a history request.
C23_NoAgentNoRemoteCall ==
  C23_NothingKnown => (last.result.kind = "no_active_agent" /\ ~last.result.fetched)

C23_Witness ==
  /\ C23_NothingKnown
  /\ last.op = "get_latest_agent_status"
  /\ last.result.kind = "no_active_agent"
  /\ config.convoAiBaseUrl
  /\ conversationContext["a"] # Absent

C24_Lookup == last.op \in {"get_latest_agent_status", "get_specialized_agent_status"}
C24_Answered(kinds) == last.response # Absent /\ last.response.kind \in kinds

\* C24: a status lookup always returns a text: after a response that is not
\* 2xx it returns 'Agent not found' (404) or 'Error retrieving agent status'
\* with the status code; after a timeout, a network error or a body that is
\* not JSON it returns an error text that names the agent and the failure.
C24_LookupNeverThrows ==
  C24_Lookup =>
    /\ last.result.kind # "throw"
    /\ C24_Answered({"http"}) =>
         IF last.response.status = 404
         THEN last.result.kind = "agent_not_found"
         ELSE /\ last.result.kind = "error_retrieving"
              /\ last.result.status = last.response.status
    /\ C24_Answered({"timeout", "network", "unparsable"}) =>
         /\ last.result.kind \in {"timed_out", "error_checking"}
         /\ last.result.agentId = "c"

C24_Witness ==
  /\ C24_Lookup
  /\ C24_Answered({"timeout"})
  /\ last.result.kind = "error_checking"
  /\ last.result.message = "TimeoutError"

(***************************************************************************)
(* Properties of what a dispatch returns.                                  *)
(***************************************************************************)
C25_RemoteCauses == {"http_error", "timeout", "network", "bad_json"}
C25_ProvisioningFailed(t) ==
  t.result.kind = "create_error" /\ t.result.cause \in C25_RemoteCauses

\* C25: a dispatch whose provisioning request failed returned an error that
\* describes the failure, not the acknowledgment of a dispatch.
C25_ProvisioningFailureReturned ==
  \A i \in 1..Len(tasks) :
    C25_ProvisioningFailed(tasks[i]) =>
      /\ tasks[i].returned.kind # "dispatched"
      /\ tasks[i].returned = tasks[i].result

\* C26: a dispatch whose call could not be placed after its agent was
\* provisioned returned a text that reports the call failure and carries the
\* id of the provisioned agent.
C26_CallFailureReturned ==
  \A i \in 1..Len(tasks) :
    tasks[i].result.kind = "call_failed" =>
      /\ tasks[i].returned.kind = "call_failed"
      /\ tasks[i].returned.agentId = tasks[i].agentId

C27_NeedsResolution ==
  /\ last.op \in DispatchOps
  /\ last.result.kind \notin {"missing_fields", "invalid_customer_name", "already_active"}
  /\ \/ last.args.phone_number = <<"a","u","t","o">>
     \/ ~MatchesPhonePattern(last.args.phone_number)

\* C27: a dispatch of any specialization whose phone number is 'auto' or
\* does not match the number pattern goes on with the number the restaurant
\* index holds for the restaurant name, and returns the 'Could not find
\* phone number' error when the index holds none.
C27_EveryDispatchResolvesPhone ==
  C27_NeedsResolution =>
    LET found == findPhoneNumber(last.userId, last.args.restaurant_name)
    IN  IF found = <<>>
        THEN last.result.kind = "phone_not_found"
        ELSE last.result.kind = "dispatched" /\ last.result.phoneNumber = found

(***************************************************************************)
(* SpecSupersede: a dispatch whose call is placed, status updates pushed   *)
(* for its polling session, a stop, and another dispatch on the channel.   *)
(***************************************************************************)
MaxSupersedeDispatches == 2
SupersedeOrder == Order({ValidOrder}, MaxSupersedeDispatches)
CallInvalid == <<"I","n","v","a","l","i","d"," ","n","u","m","b","e","r">>
CallError == <<"E","r","r","o","r",":"," ","b","u","s","y">>
SupersedeJoinResponds ==
  JoinRespondsWith({[kind |-> "ok", agent_id |-> "c"], [kind |-> "ok", agent_id |-> ""],
                    [kind |-> "http_error", agent_id |-> ""]})
SupersedeCallResponds ==
  CallRespondsWith({CallSucceeds, CallFails, CallInvalid, CallError, <<>>})
SupersedeStop == Stop({""}, {"done"})
\* an update pushed for a session that is being polled
SupersedePush ==
  \E k \in 1..Len(activePollingSessions),
     up \in {[status |-> "s2", type |-> "COMPLETED"]} :
    LET session == activePollingSessions[k]
    IN  injectStatusIntoConversation(AppId, session.userId, session.channel,
                                     session.agentId, session.type, up.status, up.type)
SupersedeLatest ==
  \E u \in DispatchUsers, ch \in Channels :
    getLatestAgentStatus(AppId, u, ch, [kind |-> "ok", status |-> "RUNNING", contents |-> 2])

NextSupersede ==
  \/ SupersedeOrder
  \/ SupersedeJoinResponds
  \/ SupersedeCallResponds
  \/ SupersedeStop
  \/ SupersedePush
  \/ SupersedeLatest

SpecSupersede == InitTurn /\ [][NextSupersede]_vars

\* C28: getLatestAgentStatus called right after a dispatch on its channel
\* was acknowledged does not return the text of a cached context entry
\* (which could only have been recorded before that dispatch).
C28_ContextSupersededByDispatch ==
  [][(/\ last.op \in DispatchOps
      /\ last.result.kind = "dispatched"
      /\ last'.op = "get_latest_agent_status"
      /\ last'.channel = last.channel) => last'.result.kind # "context"]_vars

C29_TakeoutWithoutAddress ==
  /\ last.op = "place_phone_order_agent"
  /\ ToLowerCase(last.args.delivery_type) = <<"t","a","k","e","o","u","t">>
  /\ last.args.delivery_address = <<>>
  /\ last.args.phone_number # <<>>
  /\ last.args.restaurant_name # <<>>
  /\ last.args.customer_name # <<>>
  /\ last.args.food_items # <<>>

\* C29: a takeout order with every other field given and no delivery
\* address is not rejected for a missing field.
C29_AddressOnlyForDelivery ==
  C29_TakeoutWithoutAddress => last.result.kind # "missing_fields"

(***************************************************************************)
(* Properties of the polling sessions.                                     *)
(***************************************************************************)
C30_Keys(sessions) == {sessions[k].key : k \in 1..Len(sessions)}
C30_Placed(callResult) ==
  /\ callResult # <<>>
  /\ \A word \in {<<"F","a","i","l","e","d">>, <<"E","r","r","o","r">>,
                   <<"I","n","v","a","l","i","d">>} : ~C19_Contains(callResult, word)
C30_CallPlacedForAgent ==
  /\ last'.op = "call_response"
  /\ last'.agentId # ""
  /\ C30_Placed(last'.callResult)

\* C30: a polling session appears or changes only in the step in which the
\* call of a provisioned agent (one with an agent id) is placed with a
\* result that has none of 'Failed', 'Error', 'Invalid' and without an
\* error thrown, and it is then the session of that channel and agent; no
\* other step adds a session or changes one.
C30_SessionOnlyAfterPlacedCall ==
  [][IF C30_CallPlacedForAgent
     THEN \A k \in 1..Len(activePollingSessions') :
            \/ \E j \in 1..Len(activePollingSessions) :
                  activePollingSessions[j] = activePollingSessions'[k]
            \/ /\ activePollingSessions'[k].channel = last'.channel
               /\ activePollingSessions'[k].agentId = last'.agentId
     ELSE \A k \in 1..Len(activePollingSessions') :
            \E j \in 1..Len(activePollingSessions) :
              activePollingSessions[j] = activePollingSessions'[k]]_vars

C30_Witness ==
  /\ last.op = "call_response"
  /\ last.callResult = CallSucceeds
  /\ last.agentId = "c"
  /\ \E k \in 1..Len(activePollingSessions) :
       /\ activePollingSessions[k].channel = last.channel
       /\ activePollingSessions[k].agentId = "c"
  /\ \E i \in 1..Len(tasks) : tasks[i].result.kind = "call_failed"

(***************************************************************************)
(* SpecRoute: one order dispatch whose provisioning succeeds, while the    *)
(* channel's call action preference is stored and the clock passes the     *)
(* one-hour limit.                                                         *)
(***************************************************************************)
MaxRouteDispatches == 1
RouteCallActions == {"live", "call_sid", "call_hermes", "sms"}
RouteChannels == {"a"}

RouteOrder ==
  \E ch \in RouteChannels :
    /\ placePhoneOrderAgent(AppId, "u1", ch, ValidOrder, "r1")
    /\ Len(tasks') <= MaxRouteDispatches
RouteStore == \E ch \in Channels, a \in RouteCallActions : storeCallAction(ch, a)
RouteJoinResponds == JoinRespondsWith({[kind |-> "ok", agent_id |-> "c"]})
RouteCallResponds == CallRespondsWith({CallSucceeds, <<>>})

NextRoute ==
  \/ RouteOrder
  \/ RouteStore
  \/ ClockTick
  \/ RouteJoinResponds
  \/ RouteCallResponds

SpecRoute == InitTurn /\ [][NextRoute]_vars

(***************************************************************************)
(* Properties of the outbound routing.                                     *)
(***************************************************************************)
\* the preference in force for a channel: the stored value unless it is
\* absent or older than one hour
C31_Policy(ch) ==
  IF callActionStore[ch] = Absent THEN "default"
  ELSE IF now - callActionStore[ch].timestamp > OneHourMs THEN "default"
  ELSE callActionStore[ch].callAction

C31_Routed(policy, phoneNumber) ==
  CASE policy = "live" -> phoneNumber
    [] policy = "call_sid" -> <<"S">>
    [] OTHER -> <<"H">>

\* C31: in the step in which a dispatch's provisioning has succeeded and its
\* call is placed, the number called follows the channel's preference as it
\* is in force in that step: 'live' calls the dispatch's phone number,
\* 'call_sid' the configured Sid number, and every other value, the default
\* of an absent or expired preference included, the configured Hermes number.
C31_CallRoutedByPolicyAtPlacement ==
  [][\A i \in 1..Len(tasks) :
       (tasks[i].stage = "provisioning" /\ tasks'[i].stage = "calling")
         => tasks'[i].callTo =
              C31_Routed(C31_Policy(tasks[i].channel), tasks[i].phoneNumber)]_vars

\* a call routed to the dispatch's own number by a 'live' preference that
\* was stored after the dispatch was accepted
C31_Witness ==
  /\ last.op = "join_response"
  /\ \E i \in 1..Len(tasks) :
       /\ tasks[i].stage = "calling"
       /\ tasks[i].callTo = tasks[i].phoneNumber
       /\ callActionStore[tasks[i].channel] # Absent
       /\ callActionStore[tasks[i].channel].callAction = "live"
       /\ callActionStore[tasks[i].channel].timestamp > tasks[i].timestamp

(***************************************************************************)
(* Properties of the session identifier and its credential.                *)
(***************************************************************************)
\* a promise that got as far as building its channel name and token
C32_Started(t) == t.tokenChannel # <<>>

C32_ScopedToSession(t) ==
  t.tokenChannel = <<"specialized", t.specialization, t.timestamp, t.random>>

\* C32 as stated: the expiry of the credential of every dispatch, taken as an
\* instant, is exactly 3600 seconds (3600000 ms) after the instant used to
\* build the session identifier, and the credential is issued for that
\* session's channel name.
C32_ExpiresExactlyOneHourAfter ==
  \A i \in 1..Len(tasks) :
    C32_Started(tasks[i]) =>
      /\ tasks[i].tokenExpire * 1000 = tasks[i].timestamp + 3600 * 1000
      /\ C32_ScopedToSession(tasks[i])

\* C32 amended: the expiry, a whole number of seconds, is 3600 more than the
\* whole seconds of the instant used to build the session identifier: it is
\* at most 3600 s and more than 3599 s after that instant, and exactly
\* 3600 s after it only when the instant falls on a whole second.  The
\* credential is issued for that session's channel name.
C32_ExpiresOneHourAfterWholeSecond ==
  \A i \in 1..Len(tasks) :
    C32_Started(tasks[i]) =>
      /\ tasks[i].tokenExpire = (tasks[i].timestamp \div 1000) + 3600
      /\ tasks[i].tokenExpire * 1000 <= tasks[i].timestamp + 3600 * 1000
      /\ tasks[i].tokenExpire * 1000 > tasks[i].timestamp + 3599 * 1000
      /\ C32_ScopedToSession(tasks[i])

\* a dispatch whose instant does not fall on a whole second
C32_Witness ==
  \E i \in 1..Len(tasks) :
    /\ C32_Started(tasks[i])
    /\ tasks[i].timestamp % 1000 # 0
    /\ tasks[i].stage = "calling"

(***************************************************************************)
(* SpecSession: dispatches of two specializations on two channels, each    *)
(* with its own draw of Math.random, while the clock advances by one       *)
(* millisecond.                                                            *)
(***************************************************************************)
MaxSessionDispatches == 2
MaxSessionElapsed == 1
\* Math.random().toString(36).substring(2, 8)
Randoms == {"r1", "r2"}

SessionInquiry ==
  \E ch \in Channels, random \in Randoms :
    /\ callAndAskQuestionAgent(AppId, "u1", ch, ValidInquiry, random)
    /\ Len(tasks') <= MaxSessionDispatches
SessionOrder ==
  \E ch \in Channels, random \in Randoms :
    /\ placePhoneOrderAgent(AppId, "u1", ch, ValidOrder, random)
    /\ Len(tasks') <= MaxSessionDispatches
SessionJoinResponds ==
  JoinRespondsWith({[kind |-> "ok", agent_id |-> "c"],
                    [kind |-> "http_error", agent_id |-> ""]})
SessionTick == Tick(1, T0 + MaxSessionElapsed)

NextSession ==
  \/ SessionInquiry
  \/ SessionOrder
  \/ SessionJoinResponds
  \/ SessionTick

SpecSession == InitTurn /\ [][NextSession]_vars

\* C33: the provisioning requests of any two dispatches carry different
\* session channel names, whatever the instants at which they were started.
C33_SessionNamesDistinct ==
  \A i, j \in 1..Len(tasks) :
    (i # j /\ C32_Started(tasks[i]) /\ C32_Started(tasks[j]))
      => SpecializedChannelName(tasks[i]) # SpecializedChannelName(tasks[j])

(***************************************************************************)
(* Properties that relate the polling sessions to the dispatch guard.      *)
(***************************************************************************)
\* C34: every registered polling session belongs to a channel whose dispatch
\* guard is held.
C34_SessionImpliesGuardHeld ==
  \A k \in 1..Len(activePollingSessions) :
    activePollingSessions[k].channel \in activeSpecializedAgents

C35_SessionsOf(sessions, ch) == SelectSeq(sessions, LAMBDA s : s.channel = ch)

\* C35: a dispatch, its background completion, a stop or a status push for
\* one channel leaves the guard, the polling sessions and the conversation
\* context entry of every other channel as they were; this includes a stop
\* with an explicit agent_id.
C35_OtherChannelsUnchanged ==
  [][\A c2 \in Channels :
       c2 # last'.channel =>
         /\ (c2 \in activeSpecializedAgents') = (c2 \in activeSpecializedAgents)
         /\ C35_SessionsOf(activePollingSessions', c2)
              = C35_SessionsOf(activePollingSessions, c2)
         /\ conversationContext'[c2] = conversationContext[c2]]_vars

(***************************************************************************)
(* SpecLatest: two dispatches of one user on different channels whose      *)
(* provisioning requests are answered in either order with different       *)
(* agent ids, and status lookups without agent_id.                         *)
(***************************************************************************)
MaxLatestDispatches == 2
LatestAgentIds == {"c", "d"}

LatestInquiry ==
  \E ch \in Channels :
    /\ callAndAskQuestionAgent(AppId, "u1", ch, ValidInquiry, "r1")
    /\ Len(tasks') <= MaxLatestDispatches
LatestJoinResponds ==
  JoinRespondsWith({[kind |-> "ok", agent_id |-> a] : a \in LatestAgentIds})
LatestLookup ==
  \E ch \in Channels, resp \in {[kind |-> "ok", status |-> "RUNNING", contents |-> 2],
                                [kind |-> "http", status |-> 404]} :
    getSpecializedAgentStatus(AppId, "u1", ch, [agent_id |-> ""], resp)

NextLatest ==
  \/ LatestInquiry
  \/ LatestJoinResponds
  \/ LatestLookup

SpecLatest == InitTurn /\ [][NextLatest]_vars

\* C36: once every dispatch of the user has been provisioned, a status lookup
\* without agent_id asks for the agent of the dispatch the user initiated
\* last, in whatever order the provisioning requests were answered.
C36_LookupUsesLatestInitiated ==
  ( /\ last.op = "get_specialized_agent_status"
    /\ last.args.agent_id = ""
    /\ tasks # <<>>
    /\ \A i \in 1..Len(tasks) : tasks[i].userId = last.userId /\ tasks[i].agentId # "" )
    => last.result.agentId = tasks[Len(tasks)].agentId

(***************************************************************************)
(* Properties of the call evidence within one turn.                        *)
(***************************************************************************)
\* no message of the conversation as it was before the turn shows a call or
\* a greeting
C37_NoEarlierEvidence ==
  \A k \in 1..turn.historyLen : ~C12_ShowsCallOrGreeting(turn.fullMessages[k])

\* C37: a request for call_phone, call_hermes_phone or call_sid_phone that is
\* the first tool call of the turn, with well-formed arguments, has its
\* handler invoked when no message that preceded the turn shows a call or a
\* greeting; what the assistant message of the turn itself says does not
\* count as evidence.
C37_FirstCallOfTurnInvoked ==
  [][(C12_CallRequest /\ turn.i = 1 /\ C37_NoEarlierEvidence
        /\ turn.toolCalls[1].arguments # "{")
       => C12_HandlerInvoked]_vars

C38_NameOf(msg) == turn.toolCalls[C17_RequestOf(msg.tool_call_id)].name

\* C38: among the tool-result messages appended in one turn no two answer
\* requests of the same function name, the synthetic 'already active'
\* results of the call-initiating tools included.
C38_OneResultPerName ==
  \A a, b \in 1..Len(C17_ToolResults) :
    a # b => C38_NameOf(C17_ToolResults[a]) # C38_NameOf(C17_ToolResults[b])

(***************************************************************************)
(* get_indexed_restaurants, as the handler registry invokes it.            *)
(***************************************************************************)
MaxListed == 20

\* restaurantIndex.get(key) for any string; <<>> for a key the Map lacks
restaurantIndexGet(key) ==
  IF key \in DOMAIN restaurantIndex THEN restaurantIndex[key] ELSE <<>>

\* Array.prototype.sort((a, b) => b.lastSeen - a.lastSeen): stable, most
\* recently seen first
RECURSIVE SortByLastSeen(_)
SortByLastSeen(entries) ==
  IF entries = <<>> THEN <<>>
  ELSE LET sortedTail == SortByLastSeen(Tail(entries))
           e == Head(entries)
           \* e goes in front of the first entry that was not seen later
           before == SelectSeq(sortedTail, LAMBDA x : x.lastSeen > e.lastSeen)
           after == SelectSeq(sortedTail, LAMBDA x : x.lastSeen <= e.lastSeen)
       IN  before \o <<e>> \o after

\* .slice(0, 20)
SliceListed(entries) ==
  IF Len(entries) <= MaxListed THEN entries ELSE SubSeq(entries, 1, MaxListed)

\* getIndexedRestaurants(userId): what the returned text is made of
getIndexedRestaurants(userId) ==
  LET userIndex == restaurantIndexGet(userId)
  IN  IF userIndex = <<>> THEN [kind |-> "none_indexed"]
      ELSE [kind |-> "indexed", total |-> Len(userIndex),
            restaurants |->
              LET listed == SliceListed(SortByLastSeen(userIndex))
              IN  [k \in 1..Len(listed) |->
                     [name |-> listed[k].name, id |-> listed[k].id,
                      phone |-> listed[k].phone]]]

\* versionedFunctions['get_indexed_restaurants'](appId, userId, channel,
\* functionArgs): the one-parameter function is registered as it is, so its
\* parameter userId is bound to the first argument
versionedGetIndexedRestaurants(appId, userId, channel, args) ==
  getIndexedRestaurants(appId)

getIndexedRestaurantsCall(appId, userId, channel, args) ==
  /\ last' = [op |-> "get_indexed_restaurants", channel |-> channel,
              userId |-> userId, appId |-> appId, args |-> args,
              result |-> versionedGetIndexedRestaurants(appId, userId, channel, args)]
  /\ UNCHANGED <<config, now, stores, tasks, turn>>

(***************************************************************************)
(* SpecIndexed: search results recorded for two users at different         *)
(* instants, and the index listed through the registry.                    *)
(***************************************************************************)
MaxIndexedElapsed == 1
\* an application id may be any string, the id of a user included
IndexedAppIds == {AppId, "u2"}
IndexedResultLists ==
  { << TonysEntry >>,
    << [id |-> "b", name |-> NameJoes, phone |-> PhoneOther] >>,
    << [id |-> "c", name |-> NameBobs, phone |-> <<>>] >> }

RecordIndexedResults ==
  \E u \in Users, rs \in IndexedResultLists : storeYelpResults(u, rs)
ListIndexed ==
  \E appId \in IndexedAppIds, u \in Users, ch \in Channels :
    getIndexedRestaurantsCall(appId, u, ch, [none |-> TRUE])
IndexedTick == Tick(1, T0 + MaxIndexedElapsed)

NextIndexed ==
  \/ RecordIndexedResults
  \/ ListIndexed
  \/ IndexedTick

SpecIndexed == InitTurn /\ [][NextIndexed]_vars

\* C39: get_indexed_restaurants invoked through the registry with (appId,
\* userId, channel, args) lists the restaurants recorded in the index of
\* that userId: all of them (they are fewer than 20), each with its name, id
\* and phone, and the 'none indexed' text exactly when that index is empty.
C39_ListsIndexOfUser ==
  last.op = "get_indexed_restaurants" =>
    LET userIndex == restaurantIndex[last.userId]
    IN  IF userIndex = <<>> THEN last.result.kind = "none_indexed"
        ELSE /\ last.result.kind = "indexed"
             /\ { last.result.restaurants[k] : k \in 1..Len(last.result.restaurants) }
                  = { [name |-> userIndex[k].name, id |-> userIndex[k].id,
                       phone |-> userIndex[k].phone] : k \in 1..Len(userIndex) }

(***************************************************************************)
(* SpecPunctuation: name lookups and order dispatches with phone 'auto'    *)
(* whose restaurant name has no letter or digit, over recorded results.    *)
(***************************************************************************)
MaxPunctuationDispatches == 1
NamePunctuation == <<"!", "?">>
PunctuationQueries == {NamePunctuation, NameBobs, NameTonys}

PunctuationResolve ==
  \E u \in Users, q \in PunctuationQueries : findPhoneNumberCall(u, q)
PunctuationOrder ==
  Order({[ValidOrder EXCEPT !.phone_number = PhoneAuto, !.restaurant_name = q] :
           q \in PunctuationQueries},
        MaxPunctuationDispatches)

NextPunctuation ==
  \/ RecordIndexedResults
  \/ PunctuationResolve
  \/ PunctuationOrder

SpecPunctuation == InitTurn /\ [][NextPunctuation]_vars

\* C40: a name lookup whose query has no letter or digit (its normalized form
\* is empty) returns none, whatever the user's index holds, and an order
\* dispatch with phone 'auto' and such a restaurant name is rejected for
\* want of a phone number.
C40_EmptyNormalizedQueryResolvesNone ==
  /\ (last.op = "find_phone_number" /\ C19_Normal(last.args.restaurant_name) = <<>>)
       => last.result.phone = <<>>
  /\ (/\ last.op = "place_phone_order_agent"
      /\ last.args.phone_number = <<"a","u","t","o">>
      /\ C19_Normal(last.args.restaurant_name) = <<>>)
       => last.result.kind = "phone_not_found"

====
